---- MODULE Spec2Model ----
(***************************************************************************)
(* Model of the sigint news pipeline: the pre-LLM filter pipeline of       *)
(* shared/feed_fetcher.py, the seen-id deduplication, selection mapping    *)
(* and merge of reporters/handler.py, and the current/archive documents    *)
(* of shared/s3_store.py.                                                  *)
(*                                                                         *)
(* Time is counted in whole hours.  A float in [0,1] (a relevance score)   *)
(* is an integer number of hundredths.  A Jaccard similarity or threshold  *)
(* is a pair <<numerator, denominator>>.  An optional datetime is <<>>     *)
(* (None) or <<t>>.                                                        *)
(***************************************************************************)
EXTENDS Integers, Sequences, FiniteSets, TLC

\* ------------------------------------------------------------------------
\* Bounds of the model
\* ------------------------------------------------------------------------

\* longest raw item list handed to the filter pipeline
MaxLen == 3

\* the wall-clock hour at which the filter pipeline is exercised
FilterNow == 1000

\* ------------------------------------------------------------------------
\* Generic sequence helpers
\* ------------------------------------------------------------------------

Max2(a, b) == IF a >= b THEN a ELSE b

Min2(a, b) == IF a <= b THEN a ELSE b

Range(s) == {s[i] : i \in DOMAIN s}

SeqsUpTo(S, n) == UNION {[1..m -> S] : m \in 0..n}

\* s is a subsequence of t: t with some positions removed
RECURSIVE IsSubseq(_, _)
IsSubseq(s, t) ==
  IF s = <<>> THEN TRUE
  ELSE IF t = <<>> THEN FALSE
  ELSE IF Head(s) = Head(t) THEN IsSubseq(Tail(s), Tail(t))
  ELSE IsSubseq(s, Tail(t))

\* t restricted to the positions in K, in order
Restrict(t, K) ==
  LET F[i \in 0..Len(t)] ==
        IF i = 0 THEN <<>>
        ELSE IF i \in K THEN Append(F[i - 1], t[i]) ELSE F[i - 1]
  IN  F[Len(t)]

\* ------------------------------------------------------------------------
\* RawFeedItem and title tokens (feed_fetcher.py)
\* ------------------------------------------------------------------------

\* A title is a sequence of tokens: words in some letter case, and runs of
\* non-alphanumeric characters.
Punctuation == {"-", "!"}

\* str.lower() on the vocabulary of the model
Lower(w) ==
  CASE w = "Fed" -> "fed"
    [] w = "FED" -> "fed"
    [] w = "Raises" -> "raises"
    [] w = "RATES" -> "rates"
    [] w = "Interest" -> "interest"
    [] OTHER -> w

\* set(re.findall(r'\w+', s.lower()))
WordSet(title) == {Lower(title[i]) : i \in {j \in DOMAIN title : title[j] \notin Punctuation}}

RawFeedItem(id, title, source, published) ==
  [id |-> id, title |-> title, source |-> source, published |-> published]

\* The raw items the filter pipeline is exercised on, at wall-clock hour now.
\* Titles A, B, C form a chain: sim(A,B) = sim(B,C) = 3/4, sim(A,C) = 1/2.
FeedCatalogue(now) ==
  { RawFeedItem("i1", <<"Fed", "raises", "rates">>, "BBC", <<now>>),
    RawFeedItem("i2", <<"FED", "Raises", "-", "interest", "RATES", "!">>, "NPR", <<now - 1>>),
    RawFeedItem("i3", <<"raises", "Interest", "rates">>, "BBC", <<now - 24>>),
    RawFeedItem("i4", <<"fed", "raises", "rates">>, "BBC", <<>>),
    RawFeedItem("i5", <<"-">>, "NPR", <<now - 720>>),
    RawFeedItem("i6", <<"fed", "raises", "interest", "rates">>, "BBC", <<now - 721>>) }

\* max_age_hours values: below the clamp, the default, above the clamp
AgeChoices == {-5, 24, 9999}

\* similarity_threshold values as <<numerator, denominator>>
ThresholdChoices == {<<0, 1>>, <<7, 10>>, <<3, 4>>}

\* max_per_source values
CapChoices == {0, 1, 2}

\* ------------------------------------------------------------------------
\* FeedFetcher.filter_by_age
\* ------------------------------------------------------------------------

ClampAge(max_age_hours) == Max2(1, Min2(max_age_hours, 720))

\* variant: the cutoff instant itself still counts as fresh
AgeKeepsInclusive(item, cutoff) ==
  IF item.published = <<>> THEN TRUE ELSE item.published[1] >= cutoff

AgeKeeps(item, cutoff) ==
  IF item.published = <<>> THEN TRUE ELSE item.published[1] > cutoff

\* variant: the dated branch is an "if" instead of an "elif" whose test also
\* admits undated items, so an undated item is appended twice
RECURSIVE age_scan_twice(_, _, _)
age_scan_twice(items, i, cutoff) ==
  IF i > Len(items) THEN <<>>
  ELSE (IF items[i].published = <<>> THEN <<items[i], items[i]>>
        ELSE IF AgeKeeps(items[i], cutoff) THEN <<items[i]>> ELSE <<>>)
       \o age_scan_twice(items, i + 1, cutoff)

filter_by_age_twice(items, max_age_hours, now) ==
  age_scan_twice(items, 1, now - ClampAge(max_age_hours))

filter_by_age(items, max_age_hours, now) ==
  LET cutoff == now - ClampAge(max_age_hours)
  IN  SelectSeq(items, LAMBDA item : AgeKeeps(item, cutoff))

\* ------------------------------------------------------------------------
\* FeedFetcher._jaccard_similarity and filter_similar_titles
\* ------------------------------------------------------------------------

jaccard_similarity(str1, str2) ==
  LET words1 == WordSet(str1)
      words2 == WordSet(str2)
  IN  IF words1 = {} \/ words2 = {} THEN <<0, 1>>
      ELSE <<Cardinality(words1 \cap words2), Cardinality(words1 \cup words2)>>

\* similarity >= similarity_threshold, on fractions with positive denominators
SimGE(sim, threshold) == sim[1] * threshold[2] >= threshold[1] * sim[2]

\* variant: only the most recently kept item is compared
is_similar_to_last(item, filtered, threshold) ==
  /\ filtered # <<>>
  /\ SimGE(jaccard_similarity(item.title, filtered[Len(filtered)].title), threshold)

is_similar(item, filtered, threshold) ==
  \E j \in DOMAIN filtered :
    SimGE(jaccard_similarity(item.title, filtered[j].title), threshold)

RECURSIVE similar_scan(_, _, _, _)
similar_scan(items, i, filtered, threshold) ==
  IF i > Len(items) THEN filtered
  ELSE similar_scan(items, i + 1,
         IF is_similar(items[i], filtered, threshold) THEN filtered
         ELSE Append(filtered, items[i]),
         threshold)

\* variant: an item is compared with every earlier item, kept or dropped
filter_similar_titles_any_earlier(items, similarity_threshold) ==
  Restrict(items,
    {i \in DOMAIN items :
       ~\E j \in 1..(i - 1) :
          SimGE(jaccard_similarity(items[i].title, items[j].title),
                similarity_threshold)})

filter_similar_titles(items, similarity_threshold) ==
  IF items = <<>> THEN items
  ELSE similar_scan(items, 1, <<>>, similarity_threshold)

\* ------------------------------------------------------------------------
\* FeedFetcher.limit_per_source
\* ------------------------------------------------------------------------

\* source_counts.get(source, 0) on a dict kept as a function
CountGet(source_counts, source) ==
  IF source \in DOMAIN source_counts THEN source_counts[source] ELSE 0

CountPut(source_counts, source, n) ==
  [s \in DOMAIN source_counts \cup {source} |->
     IF s = source THEN n ELSE source_counts[s]]

RECURSIVE source_scan(_, _, _, _, _)
source_scan(items, i, source_counts, filtered, max_per_source) ==
  IF i > Len(items) THEN filtered
  ELSE LET count == CountGet(source_counts, items[i].source)
       IN  IF count < max_per_source
           THEN source_scan(items, i + 1,
                  CountPut(source_counts, items[i].source, count + 1),
                  Append(filtered, items[i]), max_per_source)
           ELSE source_scan(items, i + 1, source_counts, filtered, max_per_source)

\* variant: off by one, "count <= max_per_source"
RECURSIVE source_scan_le(_, _, _, _, _)
source_scan_le(items, i, source_counts, filtered, max_per_source) ==
  IF i > Len(items) THEN filtered
  ELSE LET count == CountGet(source_counts, items[i].source)
       IN  IF count <= max_per_source
           THEN source_scan_le(items, i + 1,
                  CountPut(source_counts, items[i].source, count + 1),
                  Append(filtered, items[i]), max_per_source)
           ELSE source_scan_le(items, i + 1, source_counts, filtered, max_per_source)

limit_per_source_le(items, max_per_source) ==
  source_scan_le(items, 1, <<>>, <<>>, max_per_source)

limit_per_source(items, max_per_source) ==
  source_scan(items, 1, <<>>, <<>>, max_per_source)

\* FeedFetcher.apply_pre_llm_filters as one call
apply_pre_llm_filters(items, max_age_hours, similarity_threshold, max_per_source, now) ==
  limit_per_source(
    filter_similar_titles(filter_by_age(items, max_age_hours, now), similarity_threshold),
    max_per_source)

\* ------------------------------------------------------------------------
\* NewsItem and the persisted documents (models.py, s3_store.py)
\* ------------------------------------------------------------------------

UrgencyValues == {"breaking", "high", "normal", "low"}

\* relevance_score: float = Field(..., ge=0, le=1), in hundredths
ValidScore(score) == 0 <= score /\ score <= 100

NewsItem(id, source, urgency, relevance_score, published_at, fetched_at) ==
  [id |-> id, source |-> source, urgency |-> urgency,
   relevance_score |-> relevance_score,
   published_at |-> published_at, fetched_at |-> fetched_at]

IdsOf(items) == {items[i].id : i \in DOMAIN items}

\* the place of each position after a stable descending sort by keys
SortRank(keys) ==
  [i \in DOMAIN keys |->
     1 + Cardinality({j \in DOMAIN keys :
           \/ keys[j] > keys[i]
           \/ keys[j] = keys[i] /\ j < i})]

Tabulated(f) == SubSeq(f, 1, Len(f))

Placed(items, rank) ==
  [k \in DOMAIN items |-> items[CHOOSE i \in DOMAIN items : rank[i] = k]]

\* list.sort(key=..., reverse=True): descending and stable
SortDesc(items, keys) == Placed(items, Tabulated(SortRank(Tabulated(keys))))

\* items[:n]
FirstN(items, n) == SubSeq(items, 1, Min2(n, Len(items)))

\* strftime("%Y-%m-%d") of an instant: the number of its UTC day
Day(t) == t \div 24

\* the archive keeps at most this many items per category and day
ARCHIVE_DAY_LIMIT == 100

\* the reporter keeps this many items per category
TOP_ITEMS == 5

\* get_24h_archive looks back this many hours
SEEN_HOURS == 24

\* S3Store.get_archive: the archive document of one day, [] when missing
get_archive(archive, date) ==
  IF date \in DOMAIN archive THEN archive[date] ELSE <<>>

\* S3Store.get_24h_archive
get_24h_archive(archive, now) ==
  LET today == Day(now)
      yesterday == Day(now - 24)
      items == get_archive(archive, today) \o get_archive(archive, yesterday)
      cutoff == now - SEEN_HOURS
  IN  SelectSeq(items, LAMBDA item : item.fetched_at > cutoff)

\* S3Store.get_seen_ids
get_seen_ids(current, archive, now) ==
  IdsOf(current) \cup IdsOf(get_24h_archive(archive, now))

\* get_sort_key of archive_items: published_at or fetched_at
ArchiveSortKey(x) ==
  IF x.published_at # <<>> THEN x.published_at[1] ELSE x.fetched_at

\* S3Store.archive_items: the new value of the archive documents
archive_items(archive, items, now) ==
  LET today == Day(now)
      existing == get_archive(archive, today)
      existing_ids == IdsOf(existing)
      added == SelectSeq(items, LAMBDA item : item.id \notin existing_ids)
      all == existing \o added
      sorted == SortDesc(all, [i \in DOMAIN all |-> ArchiveSortKey(all[i])])
      kept == FirstN(sorted, ARCHIVE_DAY_LIMIT)
  IN  [d \in DOMAIN archive \cup {today} |-> IF d = today THEN kept ELSE archive[d]]

\* ------------------------------------------------------------------------
\* reporters/handler.py: deduplication, selection mapping, merge
\* ------------------------------------------------------------------------

\* default_age_hours when config/feeds.json does not set it
DEFAULT_AGE_HOURS == 24

\* similarity_threshold=0.7 as passed by the handler
HandlerThreshold == <<7, 10>>

\* max_per_source=5 as passed by the handler
HANDLER_MAX_PER_SOURCE == 5

\* a deduplication that would also drop an id repeated within raw_items
dedup_seen_and_repeats(raw_items, seen_ids) ==
  LET unseen == {i \in DOMAIN raw_items : raw_items[i].id \notin seen_ids}
  IN  Restrict(raw_items,
        {i \in unseen : \A j \in unseen : j < i => raw_items[j].id # raw_items[i].id})

\* new_items = [item for item in raw_items if item.id not in seen_ids]
dedup_seen(raw_items, seen_ids) ==
  SelectSeq(raw_items, LAMBDA item : item.id \notin seen_ids)

\* An item_number as the LLM may deliver it: absent, an integer, a list of
\* integers, or text that int() rejects.
IntNum(n) == [kind |-> "int", val |-> n]
ListNum(l) == [kind |-> "list", val |-> l]
MissingNum == [kind |-> "missing", val |-> 0]
TextNum == [kind |-> "text", val |-> 0]

\* a selected record that sets confidence as well
SelectionConf(item_number, urgency, relevance_score, confidence) ==
  [item_number |-> item_number, urgency |-> urgency, relevance_score |-> relevance_score,
   confidence |-> confidence]

\* a selected record without confidence: sel.get("confidence", 0.5)
Selection(item_number, urgency, relevance_score) ==
  SelectionConf(item_number, urgency, relevance_score, 50)

\* what the LLM call may come to: it raises, its text has no "{...}" match,
\* the match is not JSON, or it parses to selected_items and notes
LLMReply(outcome, selected, notes) ==
  [outcome |-> outcome, selected |-> selected, notes |-> notes]

LLMFailures == {"raised", "no_json", "bad_json"}

\* an analyze_items that would fall back to the first candidates, five at most
analyze_items_top_candidates(items, reply) ==
  IF items = <<>> THEN [selected |-> <<>>, agent_notes |-> ""]
  ELSE IF reply.outcome \in LLMFailures
  THEN [selected |-> [i \in 1..Min2(5, Len(items)) |-> Selection(IntNum(i), "normal", 50)],
        agent_notes |-> "fallback"]
  ELSE [selected |-> reply.selected, agent_notes |-> reply.notes]

\* LLMClient.analyze_items: selected_items and agent_notes of the reply,
\* ([], "") when there are no items, the call raises or nothing parses
analyze_items(items, reply) ==
  IF items = <<>> THEN [selected |-> <<>>, agent_notes |-> ""]
  ELSE IF reply.outcome \in LLMFailures THEN [selected |-> <<>>, agent_notes |-> ""]
  ELSE [selected |-> reply.selected, agent_notes |-> reply.notes]

\* an index computation that would take the item number as 0-based
item_index_zero_based(sel) ==
  LET given == sel.item_number
  IN  CASE given.kind = "missing" -> [ok |-> TRUE, idx |-> 1]
        [] given.kind = "list" ->
             [ok |-> TRUE, idx |-> IF given.val # <<>> THEN given.val[1] ELSE 1]
        [] given.kind = "int" -> [ok |-> TRUE, idx |-> given.val]
        [] OTHER -> [ok |-> FALSE, idx |-> 0]

\* item_num = sel.get("item_number", 1); a list gives its first element, or 1
\* when empty; item_idx = int(item_num) - 1.  ok is FALSE when int() raises.
item_index(sel) ==
  LET given == sel.item_number
      item_num == CASE given.kind = "missing" -> IntNum(1)
                    [] given.kind = "list" ->
                         IF given.val # <<>> THEN IntNum(given.val[1]) ELSE IntNum(1)
                    [] OTHER -> given
  IN  IF item_num.kind = "int"
      THEN [ok |-> TRUE, idx |-> item_num.val - 1]
      ELSE [ok |-> FALSE, idx |-> 0]

\* 0 <= item_idx < len(new_items)
InRange(item_idx, n) == 0 <= item_idx /\ item_idx < n

\* the loop "for sel in selected" of the handler; ok is FALSE when a
\* statement of the loop raises (the handler then answers 500)
RECURSIVE convert_scan(_, _, _, _, _)
convert_scan(selected, i, new_items, news_items, now) ==
  IF i > Len(selected) THEN [ok |-> TRUE, items |-> news_items]
  ELSE LET sel == selected[i]
           at == item_index(sel)
       IN  IF ~at.ok THEN [ok |-> FALSE, items |-> <<>>]
           ELSE IF InRange(at.idx, Len(new_items))
           THEN LET raw_item == new_items[at.idx + 1]
                IN  IF sel.urgency \in UrgencyValues /\ ValidScore(sel.relevance_score)
                    THEN convert_scan(selected, i + 1, new_items,
                           Append(news_items,
                             NewsItem(raw_item.id, raw_item.source, sel.urgency,
                                      sel.relevance_score, raw_item.published, now)),
                           now)
                    ELSE [ok |-> FALSE, items |-> <<>>]
           ELSE convert_scan(selected, i + 1, new_items, news_items, now)

convert_selections(selected, new_items, now) ==
  convert_scan(selected, 1, new_items, <<>>, now)

\* AnalyzedItem, the fields the properties speak of
AnalyzedItem(id, urgency, relevance_score, confidence, published_at) ==
  [id |-> id, urgency |-> urgency, relevance_score |-> relevance_score,
   confidence |-> confidence, published_at |-> published_at]

\* urgency = Urgency(urgency_str), Urgency.NORMAL on ValueError
parse_urgency(urgency_str) ==
  IF urgency_str \in UrgencyValues THEN urgency_str ELSE "normal"

\* the loop "for sel in selected" of LLMClient.analyze_unified: the
\* AnalyzedItems built from the rss items; ok is FALSE when a statement of
\* the loop raises (analyze_unified then returns the fallback analysis)
RECURSIVE unified_scan(_, _, _, _)
unified_scan(selected, i, rss_items, analyzed_items) ==
  IF i > Len(selected) THEN [ok |-> TRUE, items |-> analyzed_items]
  ELSE LET sel == selected[i]
           at == item_index(sel)
       IN  IF ~at.ok THEN [ok |-> FALSE, items |-> <<>>]
           ELSE IF ~InRange(at.idx, Len(rss_items))
           THEN unified_scan(selected, i + 1, rss_items, analyzed_items)
           ELSE IF ~ValidScore(sel.confidence) THEN [ok |-> FALSE, items |-> <<>>]
           ELSE LET original == rss_items[at.idx + 1]
                IN  unified_scan(selected, i + 1, rss_items,
                      Append(analyzed_items,
                        AnalyzedItem(original.id, parse_urgency(sel.urgency),
                                     original.relevance_score, sel.confidence,
                                     original.published_at)))

unified_select(selected, rss_items) == unified_scan(selected, 1, rss_items, <<>>)

\* x.relevance_score, the sort key of the merge
RelevanceKey(x) == x.relevance_score

\* a merge that would forget the state it read
carry_forward_nothing(news_items, current_items) == <<>>

\* existing items that are not in the new selection are appended
carry_forward(news_items, current_items) ==
  LET existing_ids == IdsOf(news_items)
  IN  SelectSeq(current_items, LAMBDA item : item.id \notin existing_ids)

\* a merge that would leave out the sort
merge_items_unsorted(news_items, current_items) ==
  news_items \o carry_forward(news_items, current_items)

\* news_items after the merge and the sort
merge_items(news_items, current_items) ==
  LET all == news_items \o carry_forward(news_items, current_items)
  IN  SortDesc(all, [i \in DOMAIN all |-> RelevanceKey(all[i])])

\* top_items = news_items[:5]
top_items(news_items) == FirstN(news_items, TOP_ITEMS)

\* ------------------------------------------------------------------------
\* FeedFetcher.apply_pre_llm_filters, statement by statement
\* ------------------------------------------------------------------------

VARIABLES
  fInput,      \* the items argument as passed by the caller
  fAge,        \* max_age_hours
  fThreshold,  \* similarity_threshold
  fCap,        \* max_per_source
  fNow,        \* datetime.now(UTC) during the call
  fItems,      \* the local variable items
  fStage,      \* position in apply_pre_llm_filters
  fTrail       \* value of items after each completed stage

filterVars == <<fInput, fAge, fThreshold, fCap, fNow, fItems, fStage, fTrail>>

VARIABLES
  sStep,       \* which computation of the handler has been applied
  sRaw,        \* raw_items
  sSeen,       \* seen_ids
  sNew,        \* new_items after the seen-id deduplication
  sAgain,      \* the deduplication applied once more to raw_items
  sOnOutput,   \* the deduplication applied to its own output
  sSelected,   \* the selected_items of an LLM response
  sNews,       \* what the handler's loop makes of them
  sUnified     \* what the loop of analyze_unified makes of them

selectVars == <<sStep, sRaw, sSeen, sNew, sAgain, sOnOutput, sSelected, sNews, sUnified>>

VARIABLES
  clock,       \* datetime.now(UTC), in hours
  current,     \* items of current/<category>.json, <<>> while the key is missing
  archive,     \* day |-> items of archive/<day>/<category>.json
  run,         \* runner |-> the locals and position of its handler invocation
  runsStarted, \* invocations started so far
  persisted,   \* history: id |-> fetched_at of the item a run selected and
               \* wrote to both the current document and the archive
  lastSave     \* history: the news_items and the current items read by the
               \* invocation that wrote the current document last

reporterVars == <<clock, current, archive, run, runsStarted, persisted, lastSave>>

VARIABLES
  uStep,       \* which call of the LLM client has been made
  uArgs,       \* its arguments and the reply of the LLM
  uResult      \* what it returned

unifiedVars == <<uStep, uArgs, uResult>>

VARIABLES
  cStep,       \* which method of the CorrelationEngine has been called
  cArgs,       \* its arguments and the configuration
  cResult      \* what it returned

corrVars == <<cStep, cArgs, cResult>>

VARIABLES
  nClock,      \* datetime.now(UTC), in hours
  nPatterns,   \* patterns of current/narratives.json, <<>> while the key is missing
  nDisplay,    \* items of current/narrative.json
  nLast        \* the last run of a job that writes narratives.json

narrVars == <<nClock, nPatterns, nDisplay, nLast>>

VARIABLES
  twClock,     \* datetime.now(UTC), in minutes since the start of the month
  twUsage,     \* count of twitter/usage/<month>.json, 0 while the key is missing
  twCache,     \* cache identifier |-> _cached_at of the cached response
  twClient,    \* client |-> the fields of the instance and its request in progress
  twCalls,     \* calls made so far
  twOk         \* history: HTTP-200 responses received this month

twVars == <<twClock, twUsage, twCache, twClient, twCalls, twOk>>

vars == <<filterVars, selectVars, reporterVars, unifiedVars, corrVars, narrVars, twVars>>

\* the variables an action of one component leaves alone
exceptFilter == <<selectVars, reporterVars, unifiedVars, corrVars, narrVars, twVars>>
exceptSelect == <<filterVars, reporterVars, unifiedVars, corrVars, narrVars, twVars>>
exceptReporter == <<filterVars, selectVars, unifiedVars, corrVars, narrVars, twVars>>
exceptUnified == <<filterVars, selectVars, reporterVars, corrVars, narrVars, twVars>>
exceptCorr == <<filterVars, selectVars, reporterVars, unifiedVars, narrVars, twVars>>
exceptNarr == <<filterVars, selectVars, reporterVars, unifiedVars, corrVars, twVars>>
exceptTw == <<filterVars, selectVars, reporterVars, unifiedVars, corrVars, narrVars>>

\* no call of analyze_unified has been made
UnifiedIdle == uStep = "idle" /\ uArgs = <<>> /\ uResult = <<>>

\* no method of the CorrelationEngine has been called
CorrIdle == cStep = "idle" /\ cArgs = <<>> /\ cResult = <<>>

\* no job has touched the narrative documents
NarrIdle == nClock = 0 /\ nPatterns = <<>> /\ nDisplay = <<>> /\ nLast = <<>>

\* no TwitterClient has been constructed
TwIdle ==
  /\ twClock = 0 /\ twUsage = 0 /\ twCache = <<>> /\ twClient = <<>> /\ twCalls = 0
  /\ twOk = 0

\* the filter pipeline is not being exercised
FilterIdle ==
  /\ fNow = 0 /\ fInput = <<>> /\ fAge = 0 /\ fThreshold = <<0, 1>> /\ fCap = 0
  /\ fItems = <<>> /\ fStage = 0 /\ fTrail = <<>>

\* the handler computations are not being exercised
SelectIdle ==
  /\ sStep = "idle" /\ sRaw = <<>> /\ sSeen = {} /\ sNew = <<>> /\ sAgain = <<>>
  /\ sOnOutput = <<>> /\ sSelected = <<>>
  /\ sNews = [ok |-> TRUE, items |-> <<>>]
  /\ sUnified = [ok |-> TRUE, items |-> <<>>]

Runners == {1, 2}

IdleRun ==
  [pc |-> "idle", status |-> "none", llm |-> "none", start |-> 0, overlapped |-> FALSE,
   raw_items |-> <<>>, seen_ids |-> {},
   deduped |-> <<>>, new_items |-> <<>>, selected |-> <<>>, news_items |-> <<>>,
   previous |-> <<>>, merged |-> <<>>, top_items |-> <<>>]

\* an empty bucket, no invocation in progress
ReporterIdle ==
  /\ clock = 0
  /\ current = <<>>
  /\ archive = <<>>
  /\ run = [r \in Runners |-> IdleRun]
  /\ runsStarted = 0
  /\ persisted = <<>>
  /\ lastSave = [by |-> 0, llm |-> "none", news_items |-> <<>>, previous |-> <<>>]

\* variant: title similarity runs before the age filter
RunStageSimilarityFirst(n, items, max_age_hours, similarity_threshold, max_per_source, now) ==
  CASE n = 1 -> filter_similar_titles(items, similarity_threshold)
    [] n = 2 -> filter_by_age(items, max_age_hours, now)
    [] n = 3 -> limit_per_source(items, max_per_source)

\* the stage that runs at position n of apply_pre_llm_filters, applied to items
RunStage(n, items, max_age_hours, similarity_threshold, max_per_source, now) ==
  CASE n = 1 -> filter_by_age(items, max_age_hours, now)
    [] n = 2 -> filter_similar_titles(items, similarity_threshold)
    [] n = 3 -> limit_per_source(items, max_per_source)

FilterInit ==
  /\ SelectIdle
  /\ ReporterIdle
  /\ UnifiedIdle
  /\ CorrIdle
  /\ NarrIdle
  /\ TwIdle
  /\ fNow = FilterNow
  /\ fInput \in SeqsUpTo(FeedCatalogue(FilterNow), MaxLen)
  /\ fAge \in AgeChoices
  /\ fThreshold \in ThresholdChoices
  /\ fCap \in CapChoices
  /\ fItems = fInput
  /\ fStage = 0
  /\ fTrail = <<>>

ApplyStage ==
  /\ fStage < 3
  /\ fItems' = RunStage(fStage + 1, fItems, fAge, fThreshold, fCap, fNow)
  /\ fStage' = fStage + 1
  /\ fTrail' = Append(fTrail, fItems')
  /\ UNCHANGED <<fInput, fAge, fThreshold, fCap, fNow>>

FilterNext == ApplyStage /\ UNCHANGED exceptFilter

SpecFilter == FilterInit /\ [][FilterNext]_vars

\* ------------------------------------------------------------------------
\* Properties of the filter pipeline
\* ------------------------------------------------------------------------

\* the input of stage n of the call in progress
StageInput(n) == IF n = 1 THEN fInput ELSE fTrail[n - 1]

BySource(items, s) == SelectSeq(items, LAMBDA item : item.source = s)

SourcesOf(items) == {items[i].source : i \in DOMAIN items}

\* the age rule as the specification words it: undated, or strictly newer
\* than now minus the requested age brought into [1, 720]
SpecifiedAge(h) == IF h < 1 THEN 1 ELSE IF h > 720 THEN 720 ELSE h

SpecifiedFresh(item) ==
  \/ item.published = <<>>
  \/ item.published[1] > fNow - SpecifiedAge(fAge)

Similar(a, b) == SimGE(jaccard_similarity(a.title, b.title), fThreshold)

\* C1: every stage of apply_pre_llm_filters, the whole pipeline, and each of
\* the three filters applied on its own to any input, returns a subsequence
\* of its input (so no longer than it), and the empty list for the empty list.
ThmC1_OutputIsSubsequence ==
  /\ \A n \in DOMAIN fTrail :
       /\ IsSubseq(fTrail[n], StageInput(n))
       /\ Len(fTrail[n]) <= Len(StageInput(n))
       /\ StageInput(n) = <<>> => fTrail[n] = <<>>
  /\ fStage = 3 =>
       /\ IsSubseq(fItems, fInput)
       /\ Len(fItems) <= Len(fInput)
       /\ Range(fItems) \subseteq Range(fInput)
  /\ LET aged == filter_by_age(fInput, fAge, fNow)
         deduped == filter_similar_titles(fInput, fThreshold)
         capped == limit_per_source(fInput, fCap)
     IN  /\ IsSubseq(aged, fInput) /\ Len(aged) <= Len(fInput)
         /\ IsSubseq(deduped, fInput) /\ Len(deduped) <= Len(fInput)
         /\ IsSubseq(capped, fInput) /\ Len(capped) <= Len(fInput)
         /\ fInput = <<>> => aged = <<>> /\ deduped = <<>> /\ capped = <<>>

\* the age filter dropped an item, a later stage dropped another, and an
\* item survived the whole pipeline
WitC1_StagesDropItems ==
  /\ fStage = 3
  /\ Len(fTrail[1]) < Len(fInput)
  /\ Len(fTrail[3]) < Len(fTrail[1])
  /\ fItems # <<>>

\* no two positions of items hold titles with Jaccard similarity >= threshold
NoSimilarPair(items) ==
  \A i, j \in DOMAIN items : i # j => ~Similar(items[i], items[j])

\* C2: the output of filter_similar_titles, on any input and threshold, and
\* the output of apply_pre_llm_filters hold no two items whose titles have
\* Jaccard similarity >= threshold.
ThmC2_NoSimilarTitlesKept ==
  /\ NoSimilarPair(filter_similar_titles(fInput, fThreshold))
  /\ fStage >= 2 => NoSimilarPair(fItems)

\* the similarity stage dropped a near-duplicate and kept two dissimilar items
WitC2_DuplicateDropped ==
  /\ fStage = 3
  /\ Len(fTrail[2]) < Len(fTrail[1])
  /\ Len(fItems) >= 2

\* C3: for each source s, limit_per_source(items, k) keeps the first
\* min(k, n_s) items of s in input order and nothing else of s; so no source
\* has more than k items after the filter or after the pipeline.
ThmC3_SourceCap ==
  /\ LET capped == limit_per_source(fInput, fCap)
     IN  /\ IsSubseq(capped, fInput)
         /\ \A s \in SourcesOf(fInput) :
              LET all == BySource(fInput, s)
              IN  BySource(capped, s) = SubSeq(all, 1, Min2(fCap, Len(all)))
  /\ fStage = 3 =>
       /\ \A s \in SourcesOf(fInput) : Len(BySource(fItems, s)) <= fCap
       /\ \A s \in SourcesOf(fTrail[2]) :
            LET all == BySource(fTrail[2], s)
            IN  BySource(fItems, s) = SubSeq(all, 1, Min2(fCap, Len(all)))

\* the cap cut a source that had more than k >= 1 items down to k
WitC3_CapCutsOneSource ==
  /\ fStage = 3
  /\ fCap >= 1
  /\ \E s \in SourcesOf(fTrail[2]) :
       /\ Len(BySource(fTrail[2], s)) > fCap
       /\ Len(BySource(fItems, s)) = fCap

\* C4: filter_by_age keeps exactly the items that are undated or published
\* strictly after now - h, h being max_age_hours clamped into [1, 720].
ThmC4_AgeRule ==
  /\ filter_by_age(fInput, fAge, fNow) = SelectSeq(fInput, SpecifiedFresh)
  /\ fStage >= 1 => fTrail[1] = SelectSeq(fInput, SpecifiedFresh)

\* a clamped request: an item exactly at the 720 h cutoff is dropped while an
\* undated item and a dated fresh one are kept
WitC4_CutoffItemDropped ==
  /\ fStage >= 1
  /\ fAge > 720
  /\ \E i \in DOMAIN fInput :
       /\ fInput[i].published = <<fNow - 720>>
       /\ fInput[i] \notin Range(fTrail[1])
  /\ \E i \in DOMAIN fTrail[1] : fTrail[1][i].published = <<>>
  /\ \E i \in DOMAIN fTrail[1] : fTrail[1][i].published = <<fNow - 24>>

\* C5: apply_pre_llm_filters returns limit_per_source(filter_similar_titles(
\* filter_by_age(items))).  A fresh item is dropped by the similarity stage
\* only because of a kept fresh item, and the cap counts only items that
\* survived the similarity stage.
ThmC5_StageOrder ==
  /\ fStage = 3 =>
       fItems = limit_per_source(
                  filter_similar_titles(filter_by_age(fInput, fAge, fNow), fThreshold),
                  fCap)
  /\ fStage >= 2 =>
       /\ \A i \in DOMAIN fTrail[2] : SpecifiedFresh(fTrail[2][i])
       /\ \A i \in DOMAIN fInput :
            (SpecifiedFresh(fInput[i]) /\ fInput[i] \notin Range(fTrail[2])) =>
              \E j \in DOMAIN fTrail[2] : Similar(fInput[i], fTrail[2][j])
  /\ fStage = 3 =>
       \A s \in SourcesOf(fInput) :
         Len(BySource(fItems, s)) = Min2(fCap, Len(BySource(fTrail[2], s)))

\* a stale item precedes a fresh item with a similar title, and the fresh
\* item is in the result
WitC5_StaleBeforeSimilarFresh ==
  /\ fStage = 3
  /\ \E i, j \in DOMAIN fInput :
       /\ i < j
       /\ ~SpecifiedFresh(fInput[i])
       /\ SpecifiedFresh(fInput[j])
       /\ Similar(fInput[i], fInput[j])
       /\ fInput[j] \in Range(fItems)

\* kept is the result of the greedy first-seen-wins scan of items: position i
\* is kept iff no kept earlier position holds a similar title
GreedyScan(items, kept) ==
  \E K \in SUBSET DOMAIN items :
    /\ \A i \in DOMAIN items :
         i \in K <=> ~\E j \in K : j < i /\ Similar(items[i], items[j])
    /\ kept = Restrict(items, K)

\* C6: filter_similar_titles drops an item iff it is similar to an item kept
\* before it; for a chain A, B, C (A~B, B~C, not A~C) exactly A and C survive.
ThmC6_GreedyFirstSeenWins ==
  /\ GreedyScan(fInput, filter_similar_titles(fInput, fThreshold))
  /\ fStage >= 2 => GreedyScan(fTrail[1], fTrail[2])
  /\ (/\ Len(fInput) = 3
      /\ Similar(fInput[1], fInput[2])
      /\ Similar(fInput[2], fInput[3])
      /\ ~Similar(fInput[1], fInput[3])) =>
       filter_similar_titles(fInput, fThreshold) = <<fInput[1], fInput[3]>>

\* the similarity stage received a chain A, B, C and returned A, C
WitC6_ChainKeepsEnds ==
  /\ fStage >= 2
  /\ Len(fTrail[1]) = 3
  /\ Similar(fTrail[1][1], fTrail[1][2])
  /\ Similar(fTrail[1][2], fTrail[1][3])
  /\ ~Similar(fTrail[1][1], fTrail[1][3])
  /\ fTrail[2] = <<fTrail[1][1], fTrail[1][3]>>

\* ------------------------------------------------------------------------
\* The handler's deduplication and selection mapping on drawn inputs
\* ------------------------------------------------------------------------

\* longest selected_items list of an LLM response
MaxSel == 2

\* candidate items: distinct ids, sources and dissimilar titles
Candidates ==
  << RawFeedItem("a", <<"ai", "chip">>, "BBC", <<>>),
     RawFeedItem("b", <<"rates", "cut">>, "NPR", <<>>),
     RawFeedItem("c", <<"quantum", "leap">>, "Wired", <<>>),
     RawFeedItem("d", <<"bitcoin", "falls">>, "WSJ", <<>>) >>

CandidateSet(n) == {Candidates[((i - 1) % Len(Candidates)) + 1] : i \in 1..n}

CandidateList(n) == [i \in 1..n |-> Candidates[((i - 1) % Len(Candidates)) + 1]]

\* the same candidates as the NewsItems the ingestion stored
RssList(n) ==
  [i \in 1..n |-> NewsItem(CandidateList(n)[i].id, CandidateList(n)[i].source, "normal", 50,
                            CandidateList(n)[i].published, 0)]

\* selections an LLM response may hold: item numbers in and out of range,
\* given as a number, as a list, not at all or as text, with valid and
\* invalid urgency and relevance
SelectionChoices ==
  { Selection(IntNum(1), "high", 80),
    Selection(IntNum(2), "normal", 50),
    Selection(IntNum(0), "normal", 50),
    Selection(IntNum(9), "high", 80),
    Selection(ListNum(<<2, 1>>), "low", 30),
    Selection(ListNum(<<9>>), "low", 30),
    Selection(ListNum(<<>>), "normal", 50),
    Selection(MissingNum, "normal", 50),
    Selection(TextNum, "normal", 50),
    Selection(IntNum(1), "critical", 80),
    Selection(IntNum(2), "normal", 150),
    SelectionConf(IntNum(1), "high", 80, 150) }

SelectInit ==
  /\ FilterIdle
  /\ ReporterIdle
  /\ SelectIdle
  /\ UnifiedIdle
  /\ CorrIdle
  /\ NarrIdle
  /\ TwIdle

\* handler lines 247-248 on a drawn raw_items and seen_ids
Deduplicate ==
  /\ sStep = "idle"
  /\ \E raw_items \in SeqsUpTo(CandidateSet(MaxLen), MaxLen),
        seen_ids \in SUBSET IdsOf(CandidateList(MaxLen)) :
       /\ sRaw' = raw_items
       /\ sSeen' = seen_ids
       /\ sNew' = dedup_seen(raw_items, seen_ids)
  /\ sStep' = "deduped"
  /\ UNCHANGED <<exceptSelect, sAgain, sOnOutput, sSelected, sNews, sUnified>>

\* the same statement run again, on the same inputs and on its own output
DeduplicateAgain ==
  /\ sStep = "deduped"
  /\ sAgain' = dedup_seen(sRaw, sSeen)
  /\ sOnOutput' = dedup_seen(sNew, sSeen)
  /\ sStep' = "rerun"
  /\ UNCHANGED <<exceptSelect, sRaw, sSeen, sNew, sSelected, sNews, sUnified>>

\* handler lines 322-365 and llm_client lines 523-597 on a drawn candidate
\* list and a drawn selected_items
MapSelections ==
  /\ sStep = "idle"
  /\ \E n \in 0..MaxLen, selected \in SeqsUpTo(SelectionChoices, MaxSel) :
       /\ sNew' = CandidateList(n)
       /\ sSelected' = selected
       /\ sNews' = convert_selections(selected, CandidateList(n), 0)
       /\ sUnified' = unified_select(selected, RssList(n))
  /\ sStep' = "mapped"
  /\ UNCHANGED <<exceptSelect, sRaw, sSeen, sAgain, sOnOutput>>

SelectNext ==
  \/ Deduplicate
  \/ DeduplicateAgain
  \/ MapSelections

SpecSelect == SelectInit /\ [][SelectNext]_vars

\* C7: the deduplication returns exactly the raw items whose id is not in
\* the seen set, in their order; run again on the same raw items and seen
\* set, or on its own output, it returns the same list.
ThmC7_DedupExactAndIdempotent ==
  /\ sStep \in {"deduped", "rerun"} =>
       /\ sNew = Restrict(sRaw, {i \in DOMAIN sRaw : sRaw[i].id \notin sSeen})
       /\ IsSubseq(sNew, sRaw)
       /\ IdsOf(sNew) \cap sSeen = {}
  /\ sStep = "rerun" =>
       /\ sAgain = sNew
       /\ sOnOutput = sNew

\* a seen item was dropped, unseen items were kept, one of them twice, and
\* the step was run again
WitC7_SomeSeenSomeNew ==
  /\ sStep = "rerun"
  /\ \E i \in DOMAIN sRaw : sRaw[i].id \in sSeen
  /\ \E i, j \in DOMAIN sNew : i # j /\ sNew[i] = sNew[j]
  /\ Len(sNew) < Len(sRaw)

\* the item number a selection carries, for the selections C9 speaks of:
\* a number, or a non-empty list standing for its first element
CarriesNumber(sel) ==
  \/ sel.item_number.kind = "int"
  \/ sel.item_number.kind = "list" /\ sel.item_number.val # <<>>

NumberOf(sel) ==
  IF sel.item_number.kind = "list" THEN sel.item_number.val[1] ELSE sel.item_number.val

WellFormed(sel) ==
  /\ CarriesNumber(sel)
  /\ sel.urgency \in UrgencyValues
  /\ ValidScore(sel.relevance_score)
  /\ ValidScore(sel.confidence)

\* the ids selected, in order: the candidate at the 1-based number when that
\* number is within 1..Len(candidates), nothing otherwise
RECURSIVE SpecifiedIds(_, _)
SpecifiedIds(selected, candidates) ==
  IF selected = <<>> THEN <<>>
  ELSE (IF NumberOf(Head(selected)) \in 1..Len(candidates)
        THEN <<candidates[NumberOf(Head(selected))].id>>
        ELSE <<>>) \o SpecifiedIds(Tail(selected), candidates)

IdSeq(items) == [i \in DOMAIN items |-> items[i].id]

\* C9: for selections that carry a number (bare or as a list) and valid
\* fields, both mapping loops map the 1-based number (a list's first element)
\* to the candidate at that position, drop a selection whose index is out of
\* range without failing, and map the remaining selections as if the dropped
\* one were not there.
ThmC9_IndexMapping ==
  (sStep = "mapped" /\ \A i \in DOMAIN sSelected : WellFormed(sSelected[i])) =>
    LET inRange == SelectSeq(sSelected, LAMBDA sel : NumberOf(sel) \in 1..Len(sNew))
    IN  /\ sNews.ok
        /\ IdSeq(sNews.items) = SpecifiedIds(sSelected, sNew)
        /\ sNews.items = convert_selections(inRange, sNew, 0).items
        /\ Len(sNews.items) = Len(inRange)
        /\ sUnified.ok
        /\ IdSeq(sUnified.items) = SpecifiedIds(sSelected, sNew)
        /\ sUnified.items = unified_select(inRange, RssList(Len(sNew))).items

\* a response with a list-delivered number in range and a number out of
\* range was mapped: one item results, the run goes on
WitC9_ListAndOutOfRange ==
  /\ sStep = "mapped"
  /\ \A i \in DOMAIN sSelected : WellFormed(sSelected[i])
  /\ \E i \in DOMAIN sSelected :
       /\ sSelected[i].item_number.kind = "list"
       /\ NumberOf(sSelected[i]) \in 1..Len(sNew)
  /\ \E i \in DOMAIN sSelected : NumberOf(sSelected[i]) \notin 1..Len(sNew)
  /\ sNews.ok
  /\ Len(sNews.items) = 1
  /\ sNews.items[1].id = "b"

\* ------------------------------------------------------------------------
\* reporters/handler.py: invocations for one non-markets category
\* ------------------------------------------------------------------------

\* invocations started in one behaviour
MaxRuns == 2

\* hours that pass in one behaviour
MaxClock == 1

\* invocations started in one behaviour of the long-day scenario
SeenMaxRuns == 22

\* the feed entry with content hash n: undated entries with pairwise
\* dissimilar titles
Story(n) ==
  RawFeedItem(n, <<"story", ToString(n)>>, IF n = 1 THEN "BBC" ELSE "NPR", <<>>)

Stories(first, count) == [i \in 1..count |-> Story(first + i - 1)]

\* what the category's feeds may return to an invocation: overlapping windows
Feeds == {Stories(1, 3), Stories(3, 4)}

\* a selected_items list that selects every shown item, scored by Score
SelectAll(new_items, Score(_)) ==
  [i \in DOMAIN new_items |-> Selection(IntNum(i), "normal", Score(i))]

\* how the LLM may answer the prompt for new_items: every item with falling
\* or rising scores, one item, one item twice, one item and a selection
\* whose item_number is text; or the call raises, or its text holds no JSON
\* object
Responses(new_items) ==
  { LLMReply("ok", SelectAll(new_items, LAMBDA i : 100 - 20 * i), "falling"),
    LLMReply("ok", SelectAll(new_items, LAMBDA i : 20 * i), "rising"),
    LLMReply("ok", <<Selection(IntNum(1), "high", 50)>>, "one"),
    LLMReply("ok", <<Selection(ListNum(<<1>>), "high", 70), Selection(IntNum(1), "low", 10)>>,
             "twice"),
    LLMReply("ok", <<Selection(IntNum(1), "high", 90), Selection(TextNum, "normal", 50)>>,
             "text"),
    LLMReply("raised", <<>>, ""),
    LLMReply("no_json", <<>>, "") }

\* the long day: the feeds keep returning story 1 and, from the second
\* invocation on, five stories not returned before
SeenFeeds ==
  IF runsStarted = 0 THEN {Stories(1, 1)}
  ELSE {Stories(1, 1) \o Stories(TOP_ITEMS * (runsStarted - 1) + 2, TOP_ITEMS)}

\* the long day: the LLM selects what it is shown and scores story 1 low
SeenResponses(new_items) ==
  { LLMReply("ok",
      [i \in DOMAIN new_items |->
         Selection(IntNum(i), "normal", IF new_items[i].id = 1 THEN 20 ELSE 80)],
      "all") }

\* handler entry up to feed_fetcher.fetch_feeds_sync; history: an
\* invocation has overlapped when another one was in progress at its start
\* or started before it returned
StartRun(r, feeds, maxRuns) ==
  /\ run[r].pc = "idle"
  /\ runsStarted < maxRuns
  /\ \E raw_items \in feeds :
       run' = [q \in Runners |->
                 IF q = r
                 THEN [IdleRun EXCEPT !.pc = "dedup", !.start = clock, !.raw_items = raw_items,
                                      !.overlapped = \E o \in Runners : run[o].pc # "idle"]
                 ELSE [run[q] EXCEPT !.overlapped = run[q].pc # "idle"]]
  /\ runsStarted' = runsStarted + 1
  /\ UNCHANGED <<exceptReporter, clock, current, archive, persisted, lastSave>>

\* get_seen_ids, the seen-id deduplication, apply_pre_llm_filters and the
\* "No new items" return
Dedup(r) ==
  /\ run[r].pc = "dedup"
  /\ LET seen_ids == get_seen_ids(current, archive, clock)
         deduped == dedup_seen(run[r].raw_items, seen_ids)
         new_items == apply_pre_llm_filters(deduped, DEFAULT_AGE_HOURS, HandlerThreshold,
                                            HANDLER_MAX_PER_SOURCE, clock)
     IN  run' = [run EXCEPT ![r].seen_ids = seen_ids,
                            ![r].deduped = deduped,
                            ![r].new_items = new_items,
                            ![r].pc = IF new_items = <<>> THEN "done" ELSE "llm",
                            ![r].status = IF new_items = <<>> THEN "no_new_items" ELSE "none"]
  /\ UNCHANGED <<exceptReporter, clock, current, archive, runsStarted, persisted, lastSave>>

\* llm_client.analyze_items and the conversion loop; a raising statement of
\* the loop ends the invocation with status 500
Analyze(r, answers) ==
  /\ run[r].pc = "llm"
  /\ \E reply \in answers :
       LET selected == analyze_items(run[r].new_items, reply).selected
           converted == convert_selections(selected, run[r].new_items, clock)
       IN  run' = [run EXCEPT ![r].llm = reply.outcome,
                              ![r].selected = selected,
                              ![r].news_items = converted.items,
                              ![r].pc = IF converted.ok THEN "merge" ELSE "done",
                              ![r].status = IF converted.ok THEN "none" ELSE "error"]
  /\ UNCHANGED <<exceptReporter, clock, current, archive, runsStarted, persisted, lastSave>>

\* get_category_data, the carry-forward, the sort and the cut to five
Merge(r) ==
  /\ run[r].pc = "merge"
  /\ LET merged == merge_items(run[r].news_items, current)
     IN  run' = [run EXCEPT ![r].previous = current,
                            ![r].merged = merged,
                            ![r].top_items = top_items(merged),
                            ![r].pc = "save"]
  /\ UNCHANGED <<exceptReporter, clock, current, archive, runsStarted, persisted, lastSave>>

\* s3_store.save_category_data
Save(r) ==
  /\ run[r].pc = "save"
  /\ current' = run[r].top_items
  /\ lastSave' = [by |-> r, llm |-> run[r].llm, news_items |-> run[r].news_items,
                  previous |-> run[r].previous]
  /\ run' = [run EXCEPT ![r].pc = "archive"]
  /\ UNCHANGED <<exceptReporter, clock, archive, runsStarted, persisted>>

\* s3_store.archive_items(category, news_items) and the 200 return
Archive(r) ==
  /\ run[r].pc = "archive"
  /\ archive' = archive_items(archive, run[r].merged, clock)
  /\ LET stored == Range(run[r].news_items) \cap Range(run[r].top_items)
                     \cap Range(archive'[Day(clock)])
         ids == {x.id : x \in stored}
     IN  persisted' = [id \in DOMAIN persisted \cup ids |->
                         IF id \in ids
                         THEN (CHOOSE x \in stored : x.id = id).fetched_at
                         ELSE persisted[id]]
  /\ run' = [run EXCEPT ![r].pc = "done", ![r].status = "ok"]
  /\ UNCHANGED <<exceptReporter, clock, current, runsStarted, lastSave>>

\* the invocation has returned: its locals are gone, its status is known
Return(r) ==
  /\ run[r].pc = "done"
  /\ run' = [run EXCEPT ![r] = [IdleRun EXCEPT !.status = run[r].status, !.llm = run[r].llm]]
  /\ UNCHANGED <<exceptReporter, clock, current, archive, runsStarted, persisted, lastSave>>

\* an hour passes; an invocation ends within the five-minute Lambda timeout,
\* so the hour changes between invocations
Tick ==
  /\ clock < MaxClock
  /\ \A r \in Runners : run[r].pc = "idle"
  /\ clock' = clock + 1
  /\ UNCHANGED <<exceptReporter, current, archive, run, runsStarted, persisted, lastSave>>

ReporterInit ==
  /\ FilterIdle
  /\ SelectIdle
  /\ ReporterIdle
  /\ UnifiedIdle
  /\ CorrIdle
  /\ NarrIdle
  /\ TwIdle

\* invocations of the reporter within one hour, possibly overlapping
ReporterNext ==
  \/ \E r \in Runners : StartRun(r, Feeds, MaxRuns)
  \/ \E r \in Runners : Dedup(r)
  \/ \E r \in Runners : Analyze(r, Responses(run[r].new_items))
  \/ \E r \in Runners : Merge(r)
  \/ \E r \in Runners : Save(r)
  \/ \E r \in Runners : Archive(r)
  \/ \E r \in Runners : Return(r)

SpecReporter == ReporterInit /\ [][ReporterNext]_vars

\* the long day: one invocation after the other
SeenNext ==
  \/ StartRun(1, SeenFeeds, SeenMaxRuns)
  \/ Dedup(1)
  \/ Analyze(1, SeenResponses(run[1].new_items))
  \/ Merge(1)
  \/ Save(1)
  \/ Archive(1)
  \/ Return(1)
  \/ Tick

SpecSeen == ReporterInit /\ [][SeenNext]_vars

\* C8: an item that an earlier invocation selected and wrote to the current
\* document and the day's archive is not among the items a later invocation
\* hands to the LLM, when that invocation starts less than 24 hours after the
\* item's fetched_at.
CexC8_PersistedItemNotReoffered ==
  \A r \in Runners :
    run[r].pc = "llm" =>
      \A i \in DOMAIN run[r].new_items :
        LET id == run[r].new_items[i].id
        IN  id \in DOMAIN persisted => run[r].start - persisted[id] >= SEEN_HOURS

\* the items a save was made of: news_items and the carried-forward items
SavedUnion == lastSave.news_items \o carry_forward(lastSave.news_items, lastSave.previous)

Occurrences(items, x) == Cardinality({i \in DOMAIN items : items[i] = x})

ScoresAtLeast(items, v) == Cardinality({i \in DOMAIN items : items[i].relevance_score >= v})

\* C10: after a save the current document holds, in non-increasing
\* relevance_score order, the 5 highest-scored items (all when fewer) of the
\* newly selected items and the previous items whose id was not selected
\* again; an id selected again appears only in its new version; it never
\* holds more than 5 items.
ThmC10_TopFiveOfUnion ==
  /\ Len(current) <= 5
  /\ lastSave.by # 0 =>
       /\ Len(current) = Min2(5, Len(SavedUnion))
       /\ \A i, j \in DOMAIN current :
            i < j => current[i].relevance_score >= current[j].relevance_score
       /\ \A i \in DOMAIN current :
            Occurrences(current, current[i]) <= Occurrences(SavedUnion, current[i])
       /\ \A v \in {SavedUnion[i].relevance_score : i \in DOMAIN SavedUnion} :
            ScoresAtLeast(current, v) = Min2(5, ScoresAtLeast(SavedUnion, v))
       /\ \A i \in DOMAIN current :
            current[i].id \in IdsOf(lastSave.news_items)
              => current[i] \in Range(lastSave.news_items)

\* a save of more than 5 candidates: a carried-forward item stays, another
\* one falls off, and an item selected again is there in its new version only
WitC10_CarriedKeptAndDropped ==
  /\ lastSave.by # 0
  /\ Len(SavedUnion) > 5
  /\ \E x \in Range(lastSave.previous) :
       x.id \notin IdsOf(lastSave.news_items) /\ x \in Range(current)
  /\ \E x \in Range(lastSave.previous) :
       x.id \notin IdsOf(lastSave.news_items) /\ x \notin Range(current)
  /\ \E x \in Range(lastSave.previous) :
       /\ x \notin Range(lastSave.news_items)
       /\ x \notin Range(current)
       /\ \E y \in Range(lastSave.news_items) : y.id = x.id /\ y \in Range(current)

\* ------------------------------------------------------------------------
\* llm_client.py: LLMClient.analyze_unified and its fallback
\* ------------------------------------------------------------------------

\* longest rss_items list handed to analyze_unified
MaxRss == 6

\* the fallback keeps this many items
FALLBACK_ITEMS == 5

\* x.published_at or datetime.min.replace(tzinfo=UTC); the published dates
\* of stored items are UTC instants, in hours from 0
RecencyKey(x) == IF x.published_at = <<>> THEN 0 - 1 ELSE x.published_at[1]

FALLBACK_NOTES == "Fallback analysis - LLM unavailable"

\* a fallback that would take the first five items as they come
fallback_analysis_unsorted(rss_items) ==
  LET sorted_items == FirstN(rss_items, FALLBACK_ITEMS)
      analyzed == [i \in DOMAIN sorted_items |->
                     AnalyzedItem(sorted_items[i].id, "normal", 50, 50,
                                  sorted_items[i].published_at)]
  IN  [raised |-> FALSE, items |-> analyzed, agent_notes |-> FALLBACK_NOTES]

\* LLMClient._fallback_analysis
fallback_analysis(rss_items) ==
  LET sorted_items ==
        FirstN(SortDesc(rss_items, [i \in DOMAIN rss_items |-> RecencyKey(rss_items[i])]),
               FALLBACK_ITEMS)
      analyzed == [i \in DOMAIN sorted_items |->
                     AnalyzedItem(sorted_items[i].id, "normal", 50, 50,
                                  sorted_items[i].published_at)]
  IN  [raised |-> FALSE, items |-> analyzed, agent_notes |-> FALLBACK_NOTES]

\* LLMClient.analyze_unified: the items and notes it returns; raised says
\* whether an exception leaves the call
analyze_unified(rss_items, reply) ==
  IF rss_items = <<>>
  THEN [raised |-> FALSE, items |-> <<>>,
        agent_notes |-> "No RSS items available for analysis"]
  ELSE IF reply.outcome \in LLMFailures THEN fallback_analysis(rss_items)
  ELSE LET converted == unified_select(reply.selected, rss_items)
       IN  IF converted.ok
           THEN [raised |-> FALSE, items |-> converted.items, agent_notes |-> reply.notes]
           ELSE fallback_analysis(rss_items)

\* the published dates an rss item may carry: none, or an hour
DateChoices == {<<>>, <<1>>, <<2>>}

\* the rss_items lists of the model: item i has id i
RssChoices ==
  UNION {{[i \in 1..n |-> NewsItem(i, "BBC", "high", 80, d[i], 3)] :
            d \in [1..n -> DateChoices]} : n \in 0..MaxRss}

\* replies of the LLM to the unified prompt
UnifiedReplies ==
  { LLMReply("raised", <<>>, ""),
    LLMReply("no_json", <<>>, ""),
    LLMReply("bad_json", <<>>, ""),
    LLMReply("ok", <<Selection(IntNum(2), "breaking", 90), Selection(IntNum(1), "urgent", 70)>>,
             "two picked"),
    LLMReply("ok", <<Selection(IntNum(1), "high", 90), Selection(TextNum, "high", 70)>>,
             "one picked") }

UnifiedInit ==
  /\ FilterIdle
  /\ SelectIdle
  /\ ReporterIdle
  /\ UnifiedIdle
  /\ CorrIdle
  /\ NarrIdle
  /\ TwIdle

\* one call of analyze_unified
AnalyzeUnified ==
  /\ uStep = "idle"
  /\ \E rss_items \in RssChoices, reply \in UnifiedReplies :
       /\ uArgs' = [rss_items |-> rss_items, reply |-> reply]
       /\ uResult' = analyze_unified(rss_items, reply)
  /\ uStep' = "unified"
  /\ UNCHANGED exceptUnified

UnifiedNext ==
  \/ AnalyzeUnified

SpecUnified == UnifiedInit /\ [][UnifiedNext]_vars

\* C11: when the LLM call of analyze_unified raises or its response has no
\* parseable JSON object, no exception escapes and the result is the
\* fallback: at most 5 items, the most recently published of the input with
\* undated ones last, each with urgency normal, relevance_score 0.5 and
\* confidence 0.5, and agent_notes that mark fallback mode.
ThmC11_FallbackOnLLMFailure ==
  (uStep = "unified" /\ uArgs.rss_items # <<>> /\ uArgs.reply.outcome \in LLMFailures) =>
    LET rss == uArgs.rss_items
        out == uResult.items
        \* the positions of rss the fallback took, by id
        taken == {i \in DOMAIN rss : \E k \in DOMAIN out : out[k].id = rss[i].id}
    IN  /\ ~uResult.raised
        /\ uResult.agent_notes = FALLBACK_NOTES
        /\ Len(out) = Min2(5, Len(rss))
        /\ Cardinality(taken) = Len(out)
        /\ \A k \in DOMAIN out :
             /\ out[k].urgency = "normal"
             /\ out[k].relevance_score = 50
             /\ out[k].confidence = 50
             /\ \E i \in DOMAIN rss : rss[i].id = out[k].id
                                       /\ rss[i].published_at = out[k].published_at
        /\ \A k, m \in DOMAIN out : k < m => RecencyKey(out[k]) >= RecencyKey(out[m])
        /\ \A i \in DOMAIN rss \ taken, j \in taken : RecencyKey(rss[i]) <= RecencyKey(rss[j])
        /\ \A i \in DOMAIN rss \ taken, j \in taken : rss[i].published_at = <<>> \/ rss[j].published_at # <<>>

\* the LLM call failed on six items, the newest of them last in the input
\* and an undated one first: the fallback returns five, the undated one not
\* among them
WitC11_SixItemsNewestLast ==
  /\ uStep = "unified"
  /\ uArgs.reply.outcome = "raised"
  /\ Len(uArgs.rss_items) = 6
  /\ uArgs.rss_items[1].published_at = <<>>
  /\ uArgs.rss_items[6].published_at = <<2>>
  /\ Len(uResult.items) = 5
  /\ uResult.items[1].id = 6
  /\ \A k \in DOMAIN uResult.items : uResult.items[k].id # 1

ValidRecord(sel) ==
  /\ sel.item_number.kind # "text"
  /\ sel.urgency \in UrgencyValues
  /\ ValidScore(sel.relevance_score)
  /\ ValidScore(sel.confidence)

\* C13: a selected record with an invalid field is rejected on its own: the
\* run does not abort, and the valid selections of the same batch are
\* converted, merged and persisted.
CexC13_InvalidRecordRejectedAlone ==
  \A r \in Runners :
    (run[r].pc = "done" /\ run[r].selected # <<>>) =>
      LET valid == SelectSeq(run[r].selected, ValidRecord)
          expected == convert_selections(valid, run[r].new_items, run[r].start).items
      IN  /\ run[r].status = "ok"
          /\ IdsOf(expected) \subseteq IdsOf(run[r].merged)
          /\ IdsOf(expected) \subseteq IdsOf(archive[Day(clock)])

\* ------------------------------------------------------------------------
\* correlation_engine.py: velocities and spikes
\* ------------------------------------------------------------------------

\* A float the engine computes is kept as the fraction <<numerator,
\* denominator>> it stands for, the denominator positive.
RatLT(a, b) == a[1] * b[2] < b[1] * a[2]
RatLE(a, b) == a[1] * b[2] <= b[1] * a[2]
RatEQ(a, b) == a[1] * b[2] = b[1] * a[2]
RatMax(a, b) == IF RatLT(a, b) THEN b ELSE a
RatMin(a, b) == IF RatLT(b, a) THEN b ELSE a

RECURSIVE Gcd(_, _)
Gcd(m, n) == IF n = 0 THEN m ELSE Gcd(n, m % n)

\* the fraction n / d in lowest terms
Rat(n, d) == <<n \div Gcd(n, d), d \div Gcd(n, d)>>
RatAdd(a, b) == Rat(a[1] * b[2] + b[1] * a[2], a[2] * b[2])
RatTimes(a, b) == Rat(a[1] * b[1], a[2] * b[2])
RatDiv(a, b) == Rat(a[1] * b[2], a[2] * b[1])

\* an integer sort key with the order of the fractions
RatKeys(vals) == [i \in DOMAIN vals |-> Cardinality({j \in DOMAIN vals : RatLT(vals[j], vals[i])})]

\* CORRELATION_CONFIG
VELOCITY_WINDOW_MINUTES == 60
BASELINE_WINDOW_HOURS == 24
TEMPORAL_WINDOW_HOURS == 6
SPIKE_THRESHOLD == <<2, 1>>

\* a lower bar for the entity overlap
ENTITY_MATCH_THRESHOLD_TENTH == <<1, 10>>
ENTITY_MATCH_THRESHOLD == <<3, 10>>
MIN_CONFIDENCE == <<4, 10>>

\* baseline_velocity.get(entity, 0.1) and max(baseline, 0.1)
BASELINE_FLOOR == <<1, 10>>

\* a baseline approximated as half of the current velocity
BASELINE_SHARE_HALF == <<1, 2>>

\* vel * 0.3
BASELINE_SHARE == <<3, 10>>

\* VelocitySpike.magnitude: Field(..., ge=1.0)
MAGNITUDE_MIN == <<1, 1>>

\* TweetItem; keywords stands for _extract_keywords(content), which holds
\* one keyword at most in the tweets of the model
TweetItem(tweet_id, created_at, hashtags, mentions, cashtags, keywords) ==
  [tweet_id |-> tweet_id, created_at |-> created_at, hashtags |-> hashtags,
   mentions |-> mentions, cashtags |-> cashtags, keywords |-> keywords]

\* TweetItem.all_entities
all_entities(tweet) == tweet.hashtags \o tweet.mentions \o tweet.cashtags

LowerAll(entities) == [i \in DOMAIN entities |-> Lower(entities[i])]

\* iteration over a set of one element at most
KeywordSeq(keywords) == IF keywords = {} THEN <<>> ELSE <<CHOOSE k \in keywords : TRUE>>

\* the keys one tweet counts, in the order the loop of calculate_velocity
\* meets them
Mentions(tweet) == LowerAll(all_entities(tweet)) \o LowerAll(KeywordSeq(tweet.keywords))

RECURSIVE Flatten(_)
Flatten(seqs) == IF seqs = <<>> THEN <<>> ELSE Head(seqs) \o Flatten(Tail(seqs))

\* the keys of a dict in insertion order
FirstOccurrences(keys) ==
  Restrict(keys, {i \in DOMAIN keys : \A j \in 1..(i - 1) : keys[j] # keys[i]})

\* CorrelationEngine.calculate_velocity: the dict as the list of its
\* entries, velocity = count / hours of the window
calculate_velocity(tweets, window_minutes, now) ==
  LET recent_tweets ==
        SelectSeq(tweets, LAMBDA t : t.created_at * 60 >= now * 60 - window_minutes)
      counted == Flatten([i \in DOMAIN recent_tweets |-> Mentions(recent_tweets[i])])
      entities == FirstOccurrences(counted)
  IN  [i \in DOMAIN entities |->
         [entity |-> entities[i],
          velocity |-> Rat(60 * Cardinality({j \in DOMAIN counted : counted[j] = entities[i]}),
                           window_minutes)]]

\* dict.get(entity, default) on such a list
VelocityGet(velocities, entity, default) ==
  IF \E i \in DOMAIN velocities : velocities[i].entity = entity
  THEN velocities[CHOOSE i \in DOMAIN velocities : velocities[i].entity = entity].velocity
  ELSE default

\* the first three tweets whose all_entities hold the entity
sample_ids(tweets, entity) ==
  LET holding == SelectSeq(tweets, LAMBDA t : entity \in Range(LowerAll(all_entities(t))))
  IN  [i \in 1..Min2(3, Len(holding)) |-> holding[i].tweet_id]

VelocitySpike(entity, velocity, baseline_velocity, magnitude, spike_peak, sample_tweet_ids) ==
  [entity |-> entity, velocity |-> velocity, baseline_velocity |-> baseline_velocity,
   magnitude |-> magnitude, spike_peak |-> spike_peak, sample_tweet_ids |-> sample_tweet_ids]

\* the spike the loop of detect_velocity_spikes computes for one entry
spike_of(entry, baseline_velocity, tweets, now) ==
  LET baseline == VelocityGet(baseline_velocity, entry.entity, BASELINE_FLOOR)
      magnitude == RatDiv(entry.velocity, RatMax(baseline, BASELINE_FLOOR))
  IN  VelocitySpike(entry.entity, entry.velocity, baseline, magnitude, now,
                    sample_ids(tweets, entry.entity))

\* if magnitude >= threshold
passes_threshold(spike, threshold) == RatLE(threshold, spike.magnitude)

\* CorrelationEngine.detect_velocity_spikes; raised says that building a
\* VelocitySpike failed its validation, which ends the call
detect_velocity_spikes(tweets, baseline_tweets, threshold, now) ==
  IF tweets = <<>> THEN [raised |-> FALSE, spikes |-> <<>>]
  ELSE
    LET current_velocity == calculate_velocity(tweets, VELOCITY_WINDOW_MINUTES, now)
        baseline_velocity ==
          IF baseline_tweets # <<>>
          THEN calculate_velocity(baseline_tweets, BASELINE_WINDOW_HOURS * 60, now)
          ELSE [i \in DOMAIN current_velocity |->
                  [entity |-> current_velocity[i].entity,
                   velocity |-> RatTimes(current_velocity[i].velocity, BASELINE_SHARE)]]
        computed == [i \in DOMAIN current_velocity |->
                       spike_of(current_velocity[i], baseline_velocity, tweets, now)]
        spikes == SelectSeq(computed, LAMBDA spike : passes_threshold(spike, threshold))
    IN  IF \E i \in DOMAIN spikes : RatLT(spikes[i].magnitude, MAGNITUDE_MIN)
        THEN [raised |-> TRUE, spikes |-> <<>>]
        ELSE [raised |-> FALSE,
              spikes |-> SortDesc(spikes,
                           RatKeys([i \in DOMAIN spikes |-> spikes[i].magnitude]))]

\* ------------------------------------------------------------------------
\* correlation_engine.py: correlations
\* ------------------------------------------------------------------------

\* The NewsItem fields the engine reads. title_keywords and
\* summary_keywords stand for _extract_keywords(title) and
\* _extract_keywords(summary); text is the set of entities that occur as
\* substrings of f"{title} {summary}".lower()
NewsArticle(id, published_at, entities, title_keywords, summary_keywords, text) ==
  [id |-> id, published_at |-> published_at, entities |-> entities,
   title_keywords |-> title_keywords, summary_keywords |-> summary_keywords,
   text |-> text]

\* CorrelationEngine._extract_tweet_entities
extract_tweet_entities(tweets) ==
  [hashtags |-> UNION {Range(LowerAll(tweets[i].hashtags)) : i \in DOMAIN tweets},
   mentions |-> UNION {Range(LowerAll(tweets[i].mentions)) : i \in DOMAIN tweets},
   cashtags |-> UNION {Range(LowerAll(tweets[i].cashtags)) : i \in DOMAIN tweets},
   keywords |-> UNION {tweets[i].keywords : i \in DOMAIN tweets}]

\* news entities without the keywords of the summaries
extract_news_entities_titles_only(news_items) ==
  [entities |-> UNION {Range(LowerAll(news_items[i].entities)) : i \in DOMAIN news_items},
   keywords |-> UNION {news_items[i].title_keywords : i \in DOMAIN news_items}]

\* CorrelationEngine._extract_news_entities
extract_news_entities(news_items) ==
  [entities |-> UNION {Range(LowerAll(news_items[i].entities)) : i \in DOMAIN news_items},
   keywords |-> UNION {news_items[i].title_keywords \cup news_items[i].summary_keywords :
                         i \in DOMAIN news_items}]

\* the union of the sets of such a dict
AllEntities(entity_sets) == UNION {entity_sets[k] : k \in DOMAIN entity_sets}

\* the entity set of one tweet and of one news item in _correlate_by_entities
tweet_ents(tweet) == Range(LowerAll(all_entities(tweet))) \cup tweet.keywords
item_ents(item) == Range(LowerAll(item.entities)) \cup item.title_keywords

\* min() over the times of a list
Earliest(times) == CHOOSE t \in times : \A u \in times : t <= u

CorrelatedNarrative(correlation_id, tweet_ids, news_article_ids, keywords, tweet_spike_time, news_publish_time, lead_lag_hours, confidence_score, amplification_factor) ==
  [correlation_id |-> correlation_id, tweet_ids |-> tweet_ids,
   news_article_ids |-> news_article_ids, keywords |-> keywords,
   tweet_spike_time |-> tweet_spike_time, news_publish_time |-> news_publish_time,
   lead_lag_hours |-> lead_lag_hours, confidence_score |-> confidence_score,
   amplification_factor |-> amplification_factor]

\* the ids a correlation lists
MAX_TWEET_IDS == 10
MAX_NEWS_IDS == 5

TweetIdsOf(tweets) == [i \in DOMAIN tweets |-> tweets[i].tweet_id]
NewsIdsOf(news_items) == [i \in DOMAIN news_items |-> news_items[i].id]

\* min(0.95, jaccard * 0.5 + (len(matching_tweets) / 10) * 0.25
\*            + (len(matching_news) / 5) * 0.25)
entity_confidence(jaccard, n_tweets, n_news) ==
  RatMin(<<19, 20>>,
         RatAdd(RatTimes(jaccard, <<1, 2>>),
                RatAdd(RatTimes(Rat(n_tweets, 10), <<1, 4>>),
                       RatTimes(Rat(n_news, 5), <<1, 4>>))))

\* CorrelationEngine._correlate_by_entities; raised says that min() was
\* called on an empty sequence of publication times
correlate_by_entities(tweets, news_items, tweet_entities, news_entities) ==
  LET all_tweet_entities == AllEntities(tweet_entities)
      all_news_entities == AllEntities(news_entities)
      shared_entities == all_tweet_entities \cap all_news_entities
      jaccard == Rat(Cardinality(shared_entities),
                     Cardinality(all_tweet_entities \cup all_news_entities))
      matching_tweets == SelectSeq(tweets, LAMBDA t : tweet_ents(t) \cap shared_entities # {})
      matching_news == SelectSeq(news_items, LAMBDA n : item_ents(n) \cap shared_entities # {})
      dated == {matching_news[i].published_at[1] :
                  i \in {j \in DOMAIN matching_news : matching_news[j].published_at # <<>>}}
      earliest_tweet == Earliest({matching_tweets[i].created_at : i \in DOMAIN matching_tweets})
  IN  IF shared_entities = {} THEN [raised |-> FALSE, correlations |-> <<>>]
      ELSE IF RatLT(jaccard, ENTITY_MATCH_THRESHOLD) THEN [raised |-> FALSE, correlations |-> <<>>]
      ELSE IF matching_tweets = <<>> \/ matching_news = <<>>
        THEN [raised |-> FALSE, correlations |-> <<>>]
      ELSE IF dated = {} THEN [raised |-> TRUE, correlations |-> <<>>]
      ELSE [raised |-> FALSE,
            correlations |->
              << CorrelatedNarrative(
                   <<"entity", shared_entities>>,
                   TweetIdsOf(FirstN(matching_tweets, MAX_TWEET_IDS)),
                   NewsIdsOf(FirstN(matching_news, MAX_NEWS_IDS)),
                   shared_entities,
                   earliest_tweet,
                   Earliest(dated),
                   <<Earliest(dated) - earliest_tweet>>,
                   entity_confidence(jaccard, Len(matching_tweets), Len(matching_news)),
                   <<1, 1>>) >>]

\* the spikes _correlate_by_spikes looks at
TOP_SPIKES == 5

\* `entity in text` for the strings of the model
IsSubstring(entity, text) == entity = text \/ (entity = "fed" /\ text = "fedwatch")

\* entity in item_text or any(entity in e.lower() for e in item.entities)
mentions_entity(item, entity) ==
  \/ entity \in item.text
  \/ \E i \in DOMAIN item.entities : IsSubstring(entity, Lower(item.entities[i]))

\* a window that is open at its ends
within_window_open(item, spike_peak) ==
  /\ item.published_at # <<>>
  /\ item.published_at[1] - spike_peak < TEMPORAL_WINDOW_HOURS
  /\ spike_peak - item.published_at[1] < TEMPORAL_WINDOW_HOURS

\* item.published_at and abs(item.published_at - spike.spike_peak) <= temporal_window
within_window(item, spike_peak) ==
  /\ item.published_at # <<>>
  /\ item.published_at[1] - spike_peak <= TEMPORAL_WINDOW_HOURS
  /\ spike_peak - item.published_at[1] <= TEMPORAL_WINDOW_HOURS

\* the confidence of a spike correlation
spike_confidence(lead_lag_hours, magnitude, n_news) ==
  IF lead_lag_hours > 0
  THEN RatMin(<<9, 10>>, RatAdd(<<1, 2>>, RatAdd(RatTimes(magnitude, <<1, 10>>), Rat(n_news, 10))))
  ELSE RatMin(<<7, 10>>, RatAdd(<<3, 10>>, RatAdd(RatTimes(magnitude, <<1, 10>>), Rat(n_news, 10))))

\* the pass of the loop of _correlate_by_spikes for one spike: the
\* correlation it appends, if any. md5 maps the key
\* f"{entity}_{spike_peak}" to the first 12 hex digits of its digest
spike_correlation(spike, news_items, md5) ==
  LET entity == Lower(spike.entity)
      matching_news ==
        SelectSeq(news_items,
                  LAMBDA n : mentions_entity(n, entity) /\ within_window(n, spike.spike_peak))
      earliest_news == Earliest({matching_news[i].published_at[1] : i \in DOMAIN matching_news})
      lead_lag_hours == earliest_news - spike.spike_peak
  IN  IF matching_news = <<>> THEN <<>>
      ELSE << CorrelatedNarrative(
                <<"spike", md5[<<entity, spike.spike_peak>>]>>,
                spike.sample_tweet_ids,
                NewsIdsOf(FirstN(matching_news, MAX_NEWS_IDS)),
                {entity},
                spike.spike_peak,
                earliest_news,
                <<lead_lag_hours>>,
                spike_confidence(lead_lag_hours, spike.magnitude, Len(matching_news)),
                spike.magnitude) >>

\* CorrelationEngine._correlate_by_spikes
correlate_by_spikes(spikes, news_items, md5) ==
  LET top == FirstN(spikes, TOP_SPIKES)
  IN  Flatten([i \in DOMAIN top |-> spike_correlation(top[i], news_items, md5)])

\* the loop over seen_ids of detect_correlations: the first of each id
unique_by_id(correlations) ==
  Restrict(correlations,
           {i \in DOMAIN correlations :
              \A j \in 1..(i - 1) : correlations[j].correlation_id # correlations[i].correlation_id})

\* detect_correlations without the sort
rank_correlations_unsorted(correlations) ==
  SelectSeq(unique_by_id(correlations),
            LAMBDA c : RatLE(MIN_CONFIDENCE, c.confidence_score))

\* the deduplication, the confidence filter and the sort of
\* detect_correlations
rank_correlations(correlations) ==
  LET filtered == SelectSeq(unique_by_id(correlations),
                            LAMBDA c : RatLE(MIN_CONFIDENCE, c.confidence_score))
  IN  SortDesc(filtered, RatKeys([i \in DOMAIN filtered |-> filtered[i].confidence_score]))

\* CorrelationEngine.detect_correlations; raised when one of the calls it
\* makes raises
detect_correlations(tweets, news_items, md5, now) ==
  IF tweets = <<>> \/ news_items = <<>> THEN [raised |-> FALSE, correlations |-> <<>>]
  ELSE
    LET tweet_entities == extract_tweet_entities(tweets)
        news_entities == extract_news_entities(news_items)
        spikes == detect_velocity_spikes(tweets, <<>>, SPIKE_THRESHOLD, now)
        entity_correlations ==
          correlate_by_entities(tweets, news_items, tweet_entities, news_entities)
        spike_correlations == correlate_by_spikes(spikes.spikes, news_items, md5)
    IN  IF spikes.raised \/ entity_correlations.raised
        THEN [raised |-> TRUE, correlations |-> <<>>]
        ELSE [raised |-> FALSE,
              correlations |->
                rank_correlations(entity_correlations.correlations \o spike_correlations)]

\* leading indicators read with the polarity of the field description of
\* CorrelatedNarrative.lead_lag_hours
get_leading_indicators_negative(correlations) ==
  SelectSeq(correlations, LAMBDA c : c.lead_lag_hours # <<>> /\ c.lead_lag_hours[1] < 0)

\* CorrelationEngine.get_leading_indicators
get_leading_indicators(correlations) ==
  SelectSeq(correlations, LAMBDA c : c.lead_lag_hours # <<>> /\ c.lead_lag_hours[1] > 0)

\* CorrelationEngine.get_divergent_signals
get_divergent_signals(tweets, news_items, now) ==
  LET spikes == detect_velocity_spikes(tweets, <<>>, SPIKE_THRESHOLD, now)
      all_news_entities == AllEntities(extract_news_entities(news_items))
  IN  [raised |-> spikes.raised,
       spikes |-> SelectSeq(spikes.spikes,
                            LAMBDA spike : Lower(spike.entity) \notin all_news_entities)]

\* ------------------------------------------------------------------------
\* The CorrelationEngine as a state machine: one method call per step
\* ------------------------------------------------------------------------

\* datetime.now(UTC) of the calls, in hours
CorrNow == 100

\* the largest crowd of tweets on one entity in the current window
MaxCrowd == 11

\* the tweets of the model; tweet 3 is older than the velocity window,
\* tweet 5 carries six hashtags
TweetCatalogue ==
  << TweetItem(1, CorrNow, <<"Fed">>, <<>>, <<>>, {}),
     TweetItem(2, CorrNow, <<"FED", "RATES">>, <<>>, <<>>, {"gpt"}),
     TweetItem(3, CorrNow - 2, <<"tesla">>, <<>>, <<>>, {}),
     TweetItem(4, CorrNow, <<>>, <<"opec">>, <<"tesla">>, {}),
     TweetItem(5, CorrNow, <<"nvidia", "opec", "gpt", "rates", "tesla", "Fed">>, <<>>, <<>>, {}) >>

\* k tweets on one hashtag, posted at one time
TweetCrowd(k, tag, created_at) ==
  [i \in 1..k |-> TweetItem(100 + i, created_at, <<tag>>, <<>>, <<>>, {})]

TweetChoices ==
  {Restrict(TweetCatalogue, K) : K \in SUBSET DOMAIN TweetCatalogue}
    \cup {TweetCrowd(k, "Fed", CorrNow) : k \in (MaxCrowd - 1)..MaxCrowd}

\* histories handed in as baseline_tweets: none, a quiet day, two busy
\* days, and a history older than the baseline window
BaselineChoices ==
  { <<>>,
    TweetCrowd(6, "Fed", CorrNow - 3),
    TweetCrowd(30, "FED", CorrNow - 3),
    TweetCrowd(48, "fed", CorrNow - 3) \o TweetCrowd(4, "tesla", CorrNow - 5),
    TweetCrowd(2, "Fed", CorrNow - 30) }

\* configured spike_threshold: the default, the one of the tests, and one
\* below 1
SpikeThresholdChoices == {SPIKE_THRESHOLD, <<5, 1>>, <<1, 2>>}

\* the largest crowd of news items on one entity
MaxNewsCrowd == 6

\* the news items of the model: 1 names the Fed and appears after the
\* tweets, 2 has "rates" in its title and "gpt" in its summary only and
\* appeared before them, 3 is undated, 4 names "fedwatch" and appears
\* exactly temporal_window_hours after the tweets, 5 is older than that
\* window, 6 has "nvidia" in its summary only and appears with the tweets,
\* 7 names two entities and appears an hour after the tweets
NewsCatalogue ==
  << NewsArticle(1, <<CorrNow + 2>>, <<"Fed">>, {}, {}, {"fed"}),
     NewsArticle(2, <<CorrNow - 3>>, <<>>, {"rates"}, {"gpt"}, {"rates", "gpt"}),
     NewsArticle(3, <<>>, <<"FED">>, {}, {}, {"fed"}),
     NewsArticle(4, <<CorrNow + TEMPORAL_WINDOW_HOURS>>, <<"fedwatch">>, {}, {}, {}),
     NewsArticle(5, <<CorrNow - TEMPORAL_WINDOW_HOURS - 1>>, <<"opec">>, {"tesla"}, {}, {"tesla"}),
     NewsArticle(6, <<CorrNow>>, <<>>, {}, {"nvidia"}, {"nvidia"}),
     NewsArticle(7, <<CorrNow + 1>>, <<"opec", "tesla">>, {}, {}, {}) >>

\* k news items on the Fed
NewsCrowd(k) == [i \in 1..k |-> NewsArticle(200 + i, <<CorrNow + 1>>, <<"Fed">>, {}, {}, {"fed"})]

NewsChoices ==
  {Restrict(NewsCatalogue, K) : K \in SUBSET DOMAIN NewsCatalogue}
    \cup {NewsCrowd(k) : k \in (MaxNewsCrowd - 1)..MaxNewsCrowd}

CorrInit ==
  /\ FilterIdle
  /\ SelectIdle
  /\ ReporterIdle
  /\ UnifiedIdle
  /\ CorrIdle
  /\ NarrIdle
  /\ TwIdle

\* one call of detect_velocity_spikes on an engine with some configured
\* spike_threshold
DetectSpikes ==
  /\ cStep = "idle"
  /\ \E tweets \in TweetChoices, baseline_tweets \in BaselineChoices,
        threshold \in SpikeThresholdChoices :
       /\ cArgs' = [tweets |-> tweets, baseline_tweets |-> baseline_tweets,
                    threshold |-> threshold]
       /\ cResult' = detect_velocity_spikes(tweets, baseline_tweets, threshold, CorrNow)
  /\ cStep' = "spikes"
  /\ UNCHANGED exceptCorr

\* one call of _correlate_by_entities, with the arguments
\* detect_correlations passes
CorrelateByEntities ==
  /\ cStep = "idle"
  /\ \E tweets \in TweetChoices \ {<<>>}, news_items \in NewsChoices \ {<<>>} :
       /\ cArgs' = [tweets |-> tweets, news_items |-> news_items]
       /\ cResult' = correlate_by_entities(tweets, news_items,
                                           extract_tweet_entities(tweets),
                                           extract_news_entities(news_items))
  /\ cStep' = "entities"
  /\ UNCHANGED exceptCorr

\* the entities of the model
Vocabulary == {"fed", "rates", "gpt", "tesla", "opec", "nvidia"}

\* The first 12 hex digits of an md5 digest, as a function of the key: one
\* without a collision on the keys of the model, and one where the keys of
\* "opec" and "tesla" share their 12 digits
Md5Plain == [key \in Vocabulary \X {CorrNow} |-> key[1]]
Md5Colliding == [key \in Vocabulary \X {CorrNow} |-> IF key[1] = "tesla" THEN "opec" ELSE key[1]]
Md5Choices == {Md5Plain, Md5Colliding}

\* the histories the spikes of a correlation call are computed against
SpikeBaselines == {<<>>, TweetCrowd(6, "Fed", CorrNow - 3)}

\* one call of _correlate_by_spikes on the spikes of a
\* detect_velocity_spikes call
CorrelateBySpikes ==
  /\ cStep = "idle"
  /\ \E tweets \in TweetChoices, baseline_tweets \in SpikeBaselines,
        news_items \in NewsChoices \ {<<>>} :
       LET spikes == detect_velocity_spikes(tweets, baseline_tweets, SPIKE_THRESHOLD, CorrNow).spikes
       IN  /\ cArgs' = [spikes |-> spikes, news_items |-> news_items]
           /\ cResult' = correlate_by_spikes(spikes, news_items, Md5Plain)
  /\ cStep' = "by_spikes"
  /\ UNCHANGED exceptCorr

\* one call of detect_correlations
DetectCorrelations ==
  /\ cStep = "idle"
  /\ \E tweets \in TweetChoices, news_items \in NewsChoices, md5 \in Md5Choices :
       /\ cArgs' = [tweets |-> tweets, news_items |-> news_items, md5 |-> md5]
       /\ cResult' = detect_correlations(tweets, news_items, md5, CorrNow)
  /\ cStep' = "detect"
  /\ UNCHANGED exceptCorr

\* a CorrelatedNarrative built with the default of lead_lag_hours, None
Unlagged ==
  CorrelatedNarrative(<<"entity", {}>>, <<>>, <<>>, {}, <<>>, <<>>, <<>>, <<1, 2>>, <<1, 1>>)

\* one call of get_leading_indicators, on the result of a
\* detect_correlations call, alone or after a narrative without lead/lag
LeadingIndicators ==
  /\ cStep = "idle"
  /\ \E tweets \in TweetChoices, news_items \in NewsChoices, others \in {<<>>, <<Unlagged>>} :
       LET correlations ==
             others \o detect_correlations(tweets, news_items, Md5Plain, CorrNow).correlations
       IN  /\ cArgs' = [correlations |-> correlations]
           /\ cResult' = get_leading_indicators(correlations)
  /\ cStep' = "leading"
  /\ UNCHANGED exceptCorr

\* one call of get_divergent_signals
DivergentSignals ==
  /\ cStep = "idle"
  /\ \E tweets \in TweetChoices, news_items \in NewsChoices :
       /\ cArgs' = [tweets |-> tweets, news_items |-> news_items]
       /\ cResult' = get_divergent_signals(tweets, news_items, CorrNow)
  /\ cStep' = "divergent"
  /\ UNCHANGED exceptCorr

CorrNext ==
  \/ DetectSpikes
  \/ CorrelateByEntities
  \/ CorrelateBySpikes
  \/ DetectCorrelations
  \/ LeadingIndicators
  \/ DivergentSignals

SpecCorrelate == CorrInit /\ [][CorrNext]_vars

\* the number of times the current window counts an entity
CountInWindow(tweets, entity, hours) ==
  LET recent == SelectSeq(tweets, LAMBDA t : t.created_at >= CorrNow - hours)
      counted == Flatten([i \in DOMAIN recent |-> Mentions(recent[i])])
  IN  Cardinality({j \in DOMAIN counted : counted[j] = entity})

\* the entities the current window counts
WindowEntities(tweets) == {e \in Vocabulary : CountInWindow(tweets, e, 1) > 0}

\* velocity / max(baseline, 0.1) of an entity, from the counts
MagnitudeOf(tweets, baseline_tweets, entity) ==
  LET velocity == Rat(CountInWindow(tweets, entity, 1), 1)
      counted == CountInWindow(baseline_tweets, entity, BASELINE_WINDOW_HOURS)
      baseline == IF baseline_tweets = <<>> THEN RatTimes(velocity, <<3, 10>>)
                  ELSE IF counted = 0 THEN <<1, 10>>
                  ELSE Rat(counted, BASELINE_WINDOW_HOURS)
  IN  RatDiv(velocity, RatMax(baseline, <<1, 10>>))

\* C14: a call of detect_velocity_spikes never fails while it builds a
\* spike, whatever the tweets, the baseline and the configured
\* spike_threshold; every spike it returns has magnitude = velocity /
\* max(baseline, 0.1) >= 1.0; an entity whose magnitude is below the
\* threshold is never a spike and one at or above it always is.
CexC14_SpikeIffAtThreshold ==
  cStep = "spikes" =>
    /\ ~cResult.raised
    /\ \A i \in DOMAIN cResult.spikes :
         /\ RatEQ(cResult.spikes[i].magnitude,
                  MagnitudeOf(cArgs.tweets, cArgs.baseline_tweets, cResult.spikes[i].entity))
         /\ RatLE(<<1, 1>>, cResult.spikes[i].magnitude)
    /\ \A e \in WindowEntities(cArgs.tweets) :
         RatLE(cArgs.threshold, MagnitudeOf(cArgs.tweets, cArgs.baseline_tweets, e))
           <=> \E i \in DOMAIN cResult.spikes : cResult.spikes[i].entity = e

\* the same with the failure of the call left aside: what the calls that
\* return do return
SpikesOfReturningCalls ==
  (cStep = "spikes" /\ ~cResult.raised) =>
    /\ \A i \in DOMAIN cResult.spikes :
         /\ RatEQ(cResult.spikes[i].magnitude,
                  MagnitudeOf(cArgs.tweets, cArgs.baseline_tweets, cResult.spikes[i].entity))
         /\ RatLE(<<1, 1>>, cResult.spikes[i].magnitude)
    /\ \A e \in WindowEntities(cArgs.tweets) :
         RatLE(cArgs.threshold, MagnitudeOf(cArgs.tweets, cArgs.baseline_tweets, e))
           <=> \E i \in DOMAIN cResult.spikes : cResult.spikes[i].entity = e

\* the entities tweets and news share, and the Jaccard similarity of the
\* two combined sets
SharedOf(tweets, news_items) ==
  AllEntities(extract_tweet_entities(tweets)) \cap AllEntities(extract_news_entities(news_items))

JaccardOf(tweets, news_items) ==
  Rat(Cardinality(SharedOf(tweets, news_items)),
      Cardinality(AllEntities(extract_tweet_entities(tweets))
                    \cup AllEntities(extract_news_entities(news_items))))

\* the tweets and the news items whose own entity set meets the shared set
MatchingTweets(tweets, news_items) ==
  SelectSeq(tweets, LAMBDA t :
    (Range(LowerAll(all_entities(t))) \cup t.keywords) \cap SharedOf(tweets, news_items) # {})

MatchingNews(tweets, news_items) ==
  SelectSeq(news_items, LAMBDA n :
    (Range(LowerAll(n.entities)) \cup n.title_keywords) \cap SharedOf(tweets, news_items) # {})

\* a call of _correlate_by_entities returned a correlation
EntityCorrelationReturned == cStep = "entities" /\ cResult.correlations # <<>>

\* C15: the confidence of an entity-overlap correlation is
\* min(0.95, 0.5*J + 0.25*min(1, T/10) + 0.25*min(1, N/5)) for the Jaccard
\* similarity J, T matching signals and N matching news items: each count
\* term contributes 0.25 at most.
CexC15_CountTermsCapped ==
  EntityCorrelationReturned =>
    LET J == JaccardOf(cArgs.tweets, cArgs.news_items)
        T == Len(MatchingTweets(cArgs.tweets, cArgs.news_items))
        N == Len(MatchingNews(cArgs.tweets, cArgs.news_items))
        capped == RatAdd(RatTimes(J, <<1, 2>>),
                    RatAdd(RatTimes(RatMin(<<1, 1>>, <<T, 10>>), <<1, 4>>),
                           RatTimes(RatMin(<<1, 1>>, <<N, 5>>), <<1, 4>>)))
    IN  RatEQ(cResult.correlations[1].confidence_score, RatMin(<<19, 20>>, capped))

\* with at most 10 matching signals and at most 5 matching news items the
\* confidence is the capped formula
ConfidenceWithinCaps ==
  (/\ EntityCorrelationReturned
   /\ Len(MatchingTweets(cArgs.tweets, cArgs.news_items)) <= 10
   /\ Len(MatchingNews(cArgs.tweets, cArgs.news_items)) <= 5) =>
    LET J == JaccardOf(cArgs.tweets, cArgs.news_items)
        T == Len(MatchingTweets(cArgs.tweets, cArgs.news_items))
        N == Len(MatchingNews(cArgs.tweets, cArgs.news_items))
    IN  RatEQ(cResult.correlations[1].confidence_score,
              RatMin(<<19, 20>>,
                     RatAdd(RatTimes(J, <<1, 2>>), RatAdd(<<T, 40>>, <<N, 20>>))))

\* C16 as stated: _correlate_by_entities returns at most one correlation,
\* only when the Jaccard similarity is >= 0.3, and its signal ids and
\* article ids cover every signal and every article whose own entity set
\* intersects the shared set, however many there are.
CexC16_IdsCoverEveryMatch ==
  cStep = "entities" =>
    /\ Len(cResult.correlations) <= 1
    /\ cResult.correlations # <<>> =>
         /\ RatLE(<<3, 10>>, JaccardOf(cArgs.tweets, cArgs.news_items))
         /\ Range(cResult.correlations[1].tweet_ids) =
              Range(TweetIdsOf(MatchingTweets(cArgs.tweets, cArgs.news_items)))
         /\ Range(cResult.correlations[1].news_article_ids) =
              Range(NewsIdsOf(MatchingNews(cArgs.tweets, cArgs.news_items)))

\* C16 (amended): _correlate_by_entities returns at most one correlation,
\* only when the Jaccard similarity is >= 0.3; its signal ids are the first
\* 10, in input order, of the signals whose own entity set intersects the
\* shared set, and its article ids the first 5 of the articles whose
\* entities and title keywords intersect it.
ThmC16_IdsAreFirstMatches ==
  cStep = "entities" =>
    /\ Len(cResult.correlations) <= 1
    /\ cResult.correlations # <<>> =>
         LET T == TweetIdsOf(MatchingTweets(cArgs.tweets, cArgs.news_items))
             N == NewsIdsOf(MatchingNews(cArgs.tweets, cArgs.news_items))
         IN  /\ RatLE(<<3, 10>>, JaccardOf(cArgs.tweets, cArgs.news_items))
             /\ cResult.correlations[1].tweet_ids = SubSeq(T, 1, Min2(10, Len(T)))
             /\ cResult.correlations[1].news_article_ids = SubSeq(N, 1, Min2(5, Len(N)))

\* a correlation over eleven matching signals lists ten of them
WitC16_EleventhSignalLeftOut ==
  /\ EntityCorrelationReturned
  /\ Len(MatchingTweets(cArgs.tweets, cArgs.news_items)) = 11
  /\ Len(cResult.correlations[1].tweet_ids) = 10

\* the news items that name an entity in title, summary or entities and
\* were published within 6 hours of a time, before or after
NewsAbout(news_items, entity, peak) ==
  {i \in DOMAIN news_items :
     /\ \/ entity \in news_items[i].text
        \/ \E k \in DOMAIN news_items[i].entities :
             IsSubstring(entity, Lower(news_items[i].entities[k]))
     /\ news_items[i].published_at # <<>>
     /\ news_items[i].published_at[1] \in (peak - 6)..(peak + 6)}

\* C17: _correlate_by_spikes considers only the five highest-magnitude
\* spikes, and emits a correlation for such a spike if and only if some
\* news item contains the spiking entity in its title, summary or entities
\* and was published within temporal_window_hours (6 h, before or after) of
\* the spike peak; the correlations come in the order of the spikes.
ThmC17_TopFiveSpikesWithCoverage ==
  cStep = "by_spikes" =>
    LET spikes == cArgs.spikes
        covered == {i \in DOMAIN spikes :
                      i <= 5 /\ NewsAbout(cArgs.news_items, spikes[i].entity, spikes[i].spike_peak) # {}}
    IN  /\ \A i, j \in DOMAIN spikes : (i <= 5 /\ j > 5) => RatLE(spikes[j].magnitude, spikes[i].magnitude)
        /\ Len(cResult) = Cardinality(covered)
        /\ \A i \in covered :
             \E k \in DOMAIN cResult :
               /\ cResult[k].keywords = {spikes[i].entity}
               /\ k = Cardinality({j \in covered : j <= i})
        /\ \A k \in DOMAIN cResult :
             \E i \in covered : cResult[k].keywords = {spikes[i].entity}

\* six spikes, the sixth of lower magnitude and on an entity the news cover
\* within the window: it gets no correlation, while a spike of the first
\* five does
WitC17_SixthSpikeIgnored ==
  /\ cStep = "by_spikes"
  /\ Len(cArgs.spikes) = 6
  /\ RatLT(cArgs.spikes[6].magnitude, cArgs.spikes[5].magnitude)
  /\ NewsAbout(cArgs.news_items, cArgs.spikes[6].entity, CorrNow) # {}
  /\ \A k \in DOMAIN cResult : cResult[k].keywords # {cArgs.spikes[6].entity}
  /\ cResult # <<>>

\* the publication time of the earliest dated news item among some
EarliestPublished(news_items, which) ==
  CHOOSE t \in {news_items[i].published_at[1] : i \in which} :
    \A i \in which : t <= news_items[i].published_at[1]

Produced(tweets, news_items, md5) ==
  correlate_by_entities(tweets, news_items, extract_tweet_entities(tweets),
                        extract_news_entities(news_items)).correlations
    \o correlate_by_spikes(detect_velocity_spikes(tweets, <<>>, <<2, 1>>, CorrNow).spikes,
                           news_items, md5)

\* a call of detect_correlations on tweets and news returned
CorrelationsReturned ==
  cStep = "detect" /\ ~cResult.raised /\ cArgs.tweets # <<>> /\ cArgs.news_items # <<>>

\* C19: in the list detect_correlations returns no two correlations share
\* a correlation_id, of several produced with one id the first is the one
\* kept (entity-overlap before spike-based), every confidence_score is
\* >= 0.4, and the list is ordered by confidence_score, non-increasing.
ThmC19_UniqueConfidentOrdered ==
  CorrelationsReturned =>
    LET out == cResult.correlations
        produced == Produced(cArgs.tweets, cArgs.news_items, cArgs.md5)
        kept == {i \in DOMAIN produced :
                   /\ \A j \in DOMAIN produced :
                        produced[j].correlation_id = produced[i].correlation_id => i <= j
                   /\ RatLE(<<4, 10>>, produced[i].confidence_score)}
    IN  /\ \A k, m \in DOMAIN out : out[k].correlation_id = out[m].correlation_id => k = m
        /\ \A k \in DOMAIN out : RatLE(<<4, 10>>, out[k].confidence_score)
        /\ \A k, m \in DOMAIN out :
             k < m => RatLE(out[m].confidence_score, out[k].confidence_score)
        /\ Range(out) = {produced[i] : i \in kept}
        /\ Len(out) = Cardinality(kept)

\* two spike correlations were produced with one id and an entity-overlap
\* correlation below 0.4: the second of the two and the weak one are gone,
\* and what is returned was reordered by confidence
WitC19_DuplicateAndWeakDropped ==
  /\ CorrelationsReturned
  /\ LET produced == Produced(cArgs.tweets, cArgs.news_items, cArgs.md5)
     IN  /\ \E i, j \in DOMAIN produced :
              i < j /\ produced[i].correlation_id = produced[j].correlation_id
         /\ \E i \in DOMAIN produced : RatLT(produced[i].confidence_score, <<4, 10>>)
         /\ \E i, j \in DOMAIN produced :
              i < j /\ RatLT(produced[i].confidence_score, produced[j].confidence_score)
                    /\ produced[i] \in Range(cResult.correlations)
                    /\ produced[j] \in Range(cResult.correlations)

\* the combined news-entity set: the entities fields, lower-cased, and the
\* keywords of titles and summaries
NewsEntitySet(news_items) ==
  UNION {{Lower(news_items[i].entities[k]) : k \in DOMAIN news_items[i].entities}
           \cup news_items[i].title_keywords \cup news_items[i].summary_keywords :
         i \in DOMAIN news_items}

\* C20: get_divergent_signals returns exactly the spikes of
\* detect_velocity_spikes(tweets) whose lower-cased entity is not in the
\* combined news-entity set, unchanged and in the same order; a spike
\* whose entity is in that set is never returned.
ThmC20_DivergentSpikes ==
  cStep = "divergent" =>
    LET spikes == detect_velocity_spikes(cArgs.tweets, <<>>, <<2, 1>>, CorrNow).spikes
        covered == NewsEntitySet(cArgs.news_items)
    IN  /\ ~cResult.raised
        /\ cResult.spikes =
             Restrict(spikes, {i \in DOMAIN spikes : Lower(spikes[i].entity) \notin covered})
        /\ \A k \in DOMAIN cResult.spikes : cResult.spikes[k].entity \notin covered

\* of several spikes one is held back because only the summary of a news
\* item names its entity, and one is returned although a news item names a
\* longer entity that contains its own
WitC20_SummaryKeywordCovers ==
  /\ cStep = "divergent"
  /\ LET spikes == detect_velocity_spikes(cArgs.tweets, <<>>, <<2, 1>>, CorrNow).spikes
     IN  /\ \E i \in DOMAIN spikes, n \in DOMAIN cArgs.news_items :
              /\ spikes[i].entity \in cArgs.news_items[n].summary_keywords
              /\ \A m \in DOMAIN cArgs.news_items :
                   /\ spikes[i].entity \notin cArgs.news_items[m].title_keywords
                   /\ spikes[i].entity \notin Range(LowerAll(cArgs.news_items[m].entities))
              /\ \A k \in DOMAIN cResult.spikes : cResult.spikes[k].entity # spikes[i].entity
         /\ \E k \in DOMAIN cResult.spikes, n \in DOMAIN cArgs.news_items :
              mentions_entity(cArgs.news_items[n], cResult.spikes[k].entity)
         /\ Len(cResult.spikes) >= 2
         /\ Len(cResult.spikes) < Len(spikes)

\* C21: detect_correlations, calculate_velocity, detect_velocity_spikes,
\* get_leading_indicators and get_divergent_signals never raise on
\* well-formed input, news items without published_at and tweets without
\* entities included, and return an empty result whenever an input list is
\* empty. (The engine has its default configuration.)
CexC21_EngineTotal ==
  /\ cStep = "detect" =>
       /\ ~cResult.raised
       /\ (cArgs.tweets = <<>> \/ cArgs.news_items = <<>>) => cResult.correlations = <<>>
  /\ (cStep = "spikes" /\ cArgs.threshold = <<2, 1>>) =>
       /\ ~cResult.raised
       /\ cArgs.tweets = <<>> => cResult.spikes = <<>>
  /\ cStep = "divergent" =>
       /\ ~cResult.raised
       /\ cArgs.tweets = <<>> => cResult.spikes = <<>>
  /\ (cStep = "leading" /\ cArgs.correlations = <<>>) => cResult = <<>>

\* the same without the calls of detect_correlations on tweets and news
EngineTotalButDetect ==
  /\ (cStep = "detect" /\ (cArgs.tweets = <<>> \/ cArgs.news_items = <<>>)) =>
       ~cResult.raised /\ cResult.correlations = <<>>
  /\ (cStep = "spikes" /\ cArgs.threshold = <<2, 1>>) =>
       /\ ~cResult.raised
       /\ cArgs.tweets = <<>> => cResult.spikes = <<>>
  /\ cStep = "divergent" =>
       /\ ~cResult.raised
       /\ cArgs.tweets = <<>> => cResult.spikes = <<>>
  /\ (cStep = "leading" /\ cArgs.correlations = <<>>) => cResult = <<>>

\* ------------------------------------------------------------------------
\* narrative/handler.py and editor/handler.py: the persisted narratives
\* ------------------------------------------------------------------------

\* NarrativePattern, without the fields the merge never reads. An id is
\* the first 12 hex digits of the sha256 of a string; it is kept as the
\* string that was hashed, <<prefix, rest>>
NarrativePattern(id, title, description, strength, first_seen, last_seen) ==
  [id |-> id, title |-> title, description |-> description, strength |-> strength,
   first_seen |-> first_seen, last_seen |-> last_seen]

\* NarrativePattern.strength: Field(..., ge=0, le=1)
ValidStrength(strength) == RatLE(<<0, 1>>, strength) /\ RatLE(strength, <<1, 1>>)

\* LLMClient.detect_narratives: reply.selected holds the "patterns" of the
\* JSON object; any failure, a pattern that fails validation included,
\* gives []
detect_narratives(reply, now) ==
  IF reply.outcome # "ok" THEN <<>>
  ELSE IF \E i \in DOMAIN reply.selected : ~ValidStrength(reply.selected[i].strength) THEN <<>>
  ELSE [i \in DOMAIN reply.selected |->
          NarrativePattern(<<"title", reply.selected[i].title>>, reply.selected[i].title,
                           reply.selected[i].description, reply.selected[i].strength, now, now)]

\* the patterns the narrative handler adds for velocity_spikes[:2]; of the
\* titles it composes only the fixed prefix is kept
velocity_patterns(velocity_spikes, now) ==
  [i \in 1..Min2(2, Len(velocity_spikes)) |->
     NarrativePattern(<<"velocity", velocity_spikes[i].entity>>, "Rising", "velocity",
                      RatMin(Rat(velocity_spikes[i].velocity_ratio, 5), <<1, 1>>), now, now)]

\* the patterns it adds for cross_topics[:2]
cross_patterns(cross_topics, now) ==
  [i \in 1..Min2(2, Len(cross_topics)) |->
     NarrativePattern(<<"cross", cross_topics[i].entity>>, "Cross-Signal", "cross",
                      RatMin(Rat(cross_topics[i].category_count, 4), <<1, 1>>), now, now)]

\* the patterns it adds for twitter_correlations[:3]
twitter_patterns(twitter_correlations, now) ==
  [i \in 1..Min2(3, Len(twitter_correlations)) |->
     NarrativePattern(<<"twitter", twitter_correlations[i].correlation_id>>, "Twitter", "twitter",
                      twitter_correlations[i].confidence_score,
                      twitter_correlations[i].tweet_spike_time, now)]

\* "Merge with existing patterns" of the narrative handler: existing_ids
\* is computed once, before the loop; the first entry with the id of a
\* detected pattern gets last_seen = now, a pattern with any other id is
\* appended
merge_patterns(existing, patterns, now) ==
  LET existing_ids == {existing[i].id : i \in DOMAIN existing}
      detected_ids == {patterns[i].id : i \in DOMAIN patterns}
      first_with == [id \in existing_ids |->
                       CHOOSE i \in DOMAIN existing :
                         /\ existing[i].id = id
                         /\ \A j \in 1..(i - 1) : existing[j].id # id]
      bumped == [i \in DOMAIN existing |->
                   IF existing[i].id \in detected_ids /\ first_with[existing[i].id] = i
                   THEN [existing[i] EXCEPT !.last_seen = now]
                   ELSE existing[i]]
  IN  bumped \o SelectSeq(patterns, LAMBDA p : p.id \notin existing_ids)

\* the retention window and the sizes of the narrative handler
RETENTION_HOURS == 6
MAX_PATTERNS == 10
MAX_NARRATIVE_ITEMS == 5

\* the tail the editor keeps
EDITOR_KEEP == 5

\* existing = [p for p in existing if p.last_seen > cutoff]
prune_patterns(existing, now) ==
  SelectSeq(existing, LAMBDA p : p.last_seen > now - RETENTION_HOURS)

\* existing.sort(key=strength, reverse=True); existing = existing[:10]
strongest_patterns(existing) ==
  FirstN(SortDesc(existing, RatKeys([i \in DOMAIN existing |-> existing[i].strength])),
         MAX_PATTERNS)

\* the pseudo-items of the narrative category, for existing[:5]
narrative_items(existing) ==
  [i \in 1..Min2(MAX_NARRATIVE_ITEMS, Len(existing)) |->
     [id |-> existing[i].id, title |-> existing[i].title,
      relevance_score |-> existing[i].strength]]

\* the editor's merge: by lower-cased title against the titles persisted
\* before, then existing[-5:]
editor_merge(existing, narratives) ==
  LET existing_titles == {Lower(existing[i].title) : i \in DOMAIN existing}
      all == existing \o SelectSeq(narratives, LAMBDA p : Lower(p.title) \notin existing_titles)
  IN  SubSeq(all, Max2(1, Len(all) - EDITOR_KEEP + 1), Len(all))

\* runs of the two jobs, the hours a step of the clock takes and the
\* hours the clock runs
MaxNarrRuns == 3
NarrTickHours == 3
MaxNarrClock == 9

\* the titles the LLM uses
TitleNames ==
  <<"Fed", "rates", "gpt", "opec", "tesla", "nvidia", "p7", "p8", "p9", "p10", "p11", "p12">>

\* one pattern of an LLM reply
LLMPattern(title, description, strength) ==
  [title |-> title, description |-> description, strength |-> strength]

\* six patterns of falling strength, on the titles from position first
LLMBatch(first, top) ==
  [i \in 1..6 |-> LLMPattern(TitleNames[first + i - 1], "found", <<top - 2 * (i - 1), 20>>)]

\* replies of the LLM to the narrative prompt
NarrativeReplies ==
  [ batchA |-> LLMReply("ok", LLMBatch(1, 18), ""),
    batchB |-> LLMReply("ok", LLMBatch(7, 17), ""),
    twice |-> LLMReply("ok", <<LLMPattern("macro", "first", <<16, 20>>),
                               LLMPattern("macro", "second", <<12, 20>>)>>, ""),
    again |-> LLMReply("ok", <<LLMPattern("Fed", "seen again", <<6, 20>>)>>, ""),
    lower |-> LLMReply("ok", <<LLMPattern("fed", "lower case", <<19, 20>>)>>, ""),
    invalid |-> LLMReply("ok", <<LLMPattern("gpt", "too strong", <<3, 2>>)>>, ""),
    raised |-> LLMReply("raised", <<>>, ""),
    none |-> LLMReply("ok", <<>>, "") ]

\* what one run of the narrative tracker finds: the reply of the LLM, the
\* results of find_velocity_spikes and find_cross_category_topics, and the
\* tweets and AI/ML news items it hands to the correlation engine
Detection(reply, velocity_spikes, cross_topics, tweets, news_items) ==
  [reply |-> reply, velocity_spikes |-> velocity_spikes, cross_topics |-> cross_topics,
   tweets |-> tweets, news_items |-> news_items]

Detections ==
  { Detection(NarrativeReplies.batchA, <<>>, <<>>, <<>>, <<>>),
    Detection(NarrativeReplies.batchB, <<>>, <<>>, <<>>, <<>>),
    Detection(NarrativeReplies.twice, <<[entity |-> "fed", velocity_ratio |-> 3]>>,
              <<[entity |-> "fed", category_count |-> 2]>>, <<>>, <<>>),
    Detection(NarrativeReplies.again, <<>>, <<>>,
              <<TweetCatalogue[1]>>, <<NewsCatalogue[1]>>),
    Detection(NarrativeReplies.raised, <<>>, <<>>,
              <<TweetCatalogue[1]>>, <<NewsCatalogue[3]>>),
    Detection(NarrativeReplies.invalid, <<>>, <<>>, <<>>, <<>>) }

EditorReplies ==
  { NarrativeReplies.batchA, NarrativeReplies.lower, NarrativeReplies.raised }

NarrInit ==
  /\ FilterIdle
  /\ SelectIdle
  /\ ReporterIdle
  /\ UnifiedIdle
  /\ CorrIdle
  /\ TwIdle
  /\ nClock = CorrNow
  /\ nPatterns = <<>>
  /\ nDisplay = <<>>
  /\ nLast = [job |-> "none", runs |-> 0]

\* one invocation of the narrative tracker; an exception of the
\* correlation engine ends it with status 500 before anything is written
NarrativeRun ==
  /\ nLast.runs < MaxNarrRuns
  /\ \E d \in Detections :
       LET now == nClock
           found == IF d.tweets # <<>>
                    THEN detect_correlations(d.tweets, d.news_items, Md5Plain, now)
                    ELSE [raised |-> FALSE, correlations |-> <<>>]
           patterns == detect_narratives(d.reply, now)
                         \o velocity_patterns(d.velocity_spikes, now)
                         \o cross_patterns(d.cross_topics, now)
                         \o twitter_patterns(found.correlations, now)
           existing == strongest_patterns(
                         prune_patterns(merge_patterns(nPatterns, patterns, now), now))
       IN  IF found.raised
           THEN /\ nLast' = [job |-> "narrative", runs |-> nLast.runs + 1, status |-> 500,
                             at |-> now, before |-> nPatterns, patterns |-> <<>>]
                /\ UNCHANGED <<nPatterns, nDisplay>>
           ELSE /\ nPatterns' = existing
                /\ nDisplay' = narrative_items(existing)
                /\ nLast' = [job |-> "narrative", runs |-> nLast.runs + 1, status |-> 200,
                             at |-> now, before |-> nPatterns, patterns |-> patterns]
  /\ UNCHANGED <<nClock, exceptNarr>>

\* one invocation of the editor, as far as it writes narratives.json
EditorRun ==
  /\ nLast.runs < MaxNarrRuns
  /\ \E reply \in EditorReplies :
       LET narratives == detect_narratives(reply, nClock)
       IN  /\ nPatterns' = IF narratives # <<>> THEN editor_merge(nPatterns, narratives)
                           ELSE nPatterns
           /\ nLast' = [job |-> "editor", runs |-> nLast.runs + 1, status |-> 200,
                        at |-> nClock, before |-> nPatterns, patterns |-> narratives]
  /\ UNCHANGED <<nClock, nDisplay, exceptNarr>>

\* time passes between runs
NarrTick ==
  /\ nClock + NarrTickHours <= CorrNow + MaxNarrClock
  /\ nClock' = nClock + NarrTickHours
  /\ UNCHANGED <<nPatterns, nDisplay, nLast, exceptNarr>>

NarrNext ==
  \/ NarrativeRun
  \/ EditorRun
  \/ NarrTick

SpecNarrative == NarrInit /\ [][NarrNext]_vars

\* the ids of a list of patterns
PatternIds(patterns) == [i \in DOMAIN patterns |-> patterns[i].id]

\* a run of the narrative tracker has just written the documents
NarrativeRunDone == nLast.job = "narrative" /\ nLast.status = 200

\* C22 as stated: in the narrative aggregator a detected pattern whose id
\* is already persisted is not added again, the existing entry gets
\* last_seen = now and keeps title, description, strength and first_seen;
\* after the merge no two persisted patterns share an id, whatever the
\* detectors and the LLM returned.
CexC22_NoDuplicateIds ==
  NarrativeRunDone =>
    /\ \A i, j \in DOMAIN nPatterns : nPatterns[i].id = nPatterns[j].id => i = j
    /\ \A i \in DOMAIN nPatterns, k \in DOMAIN nLast.before :
         nPatterns[i].id = nLast.before[k].id =>
           /\ nPatterns[i].title = nLast.before[k].title
           /\ nPatterns[i].description = nLast.before[k].description
           /\ nPatterns[i].strength = nLast.before[k].strength
           /\ nPatterns[i].first_seen = nLast.before[k].first_seen
           /\ (\E m \in DOMAIN nLast.patterns : nLast.patterns[m].id = nPatterns[i].id)
                => nPatterns[i].last_seen = nLast.at

\* the part of C22 on an id persisted once before the run: it is not
\* added again and only its last_seen changes
PersistedIdsOnlyBumped ==
  NarrativeRunDone =>
    \A k \in DOMAIN nLast.before :
      (\A j \in DOMAIN nLast.before : nLast.before[j].id = nLast.before[k].id => j = k) =>
        \A i, j \in DOMAIN nPatterns :
          nPatterns[i].id = nLast.before[k].id /\ nPatterns[j].id = nLast.before[k].id =>
            /\ i = j
            /\ nPatterns[i].title = nLast.before[k].title
            /\ nPatterns[i].description = nLast.before[k].description
            /\ nPatterns[i].strength = nLast.before[k].strength
            /\ nPatterns[i].first_seen = nLast.before[k].first_seen
            /\ (\E m \in DOMAIN nLast.patterns : nLast.patterns[m].id = nLast.before[k].id)
                 => nPatterns[i].last_seen = nLast.at

\* a run of the narrative tracker has just ended, with either status
NarrativeRunEnded == nLast.job = "narrative"

\* the persisted set is fresh at time now, ordered by strength and short
PrunedSortedCapped(patterns, now) ==
  /\ \A i \in DOMAIN patterns :
       patterns[i].last_seen <= now /\ now - patterns[i].last_seen <= RETENTION_HOURS
  /\ \A i, j \in DOMAIN patterns : i < j => RatLE(patterns[j].strength, patterns[i].strength)
  /\ Len(patterns) <= MAX_PATTERNS

\* the display items are the first (at most) five patterns, in order
DisplaysStrongest(display, patterns) ==
  /\ Len(display) = Min2(Len(patterns), MAX_NARRATIVE_ITEMS)
  /\ \A i \in DOMAIN display :
       /\ display[i].id = patterns[i].id
       /\ display[i].title = patterns[i].title
       /\ display[i].relevance_score = patterns[i].strength

\* C23 as stated: after every narrative-tracker run the persisted set
\* holds only patterns seen within the last 6 hours, is ordered by
\* strength non-increasing and has at most 10 patterns; the display
\* category the run wrote holds the (at most) 5 strongest, in that order.
CexC23_AfterEveryRun ==
  NarrativeRunEnded =>
    /\ PrunedSortedCapped(nPatterns, nLast.at)
    /\ nLast.status = 200 => DisplaysStrongest(nDisplay, nPatterns)

\* C23 for the runs that reach the save: the set and the display are as
\* the claim says
CompletedRunPrunedSorted ==
  NarrativeRunDone =>
    /\ PrunedSortedCapped(nPatterns, nLast.at)
    /\ DisplaysStrongest(nDisplay, nPatterns)

\* a completed run that pruned, cut to ten and displayed five
CompletedRunCutToTen ==
  ~(/\ NarrativeRunDone
    /\ Len(nPatterns) = MAX_PATTERNS
    /\ Len(nDisplay) = MAX_NARRATIVE_ITEMS
    /\ \E k \in DOMAIN nLast.before : nLast.at - nLast.before[k].last_seen >= RETENTION_HOURS)

\* the same persisted entry, whatever its last_seen
SamePattern(p, q) ==
  /\ p.id = q.id
  /\ p.description = q.description
  /\ p.strength = q.strength
  /\ p.first_seen = q.first_seen

\* the entries the last run read and did not write back
RemovedByLastRun ==
  {k \in DOMAIN nLast.before : \A i \in DOMAIN nPatterns : ~SamePattern(nLast.before[k], nPatterns[i])}

\* at least k of the entries kept are as strong as p
OutsideTop(k, p) ==
  Cardinality({i \in DOMAIN nPatterns : RatLE(p.strength, nPatterns[i].strength)}) >= k

\* a job has just written the persisted narrative document
NarrativesWritten == nLast.job \in {"narrative", "editor"} /\ nLast.status = 200

\* C24 as stated: over any sequence of runs of the narrative tracker and
\* the editor, a persisted pattern is removed only when now - last_seen
\* exceeds 6 hours or when it falls outside the top-K by strength; a
\* pattern both fresh and among the strongest is never dropped.
CexC24_RemovedOnlyStaleOrWeak ==
  NarrativesWritten =>
    \A k \in RemovedByLastRun :
      \/ nLast.at - nLast.before[k].last_seen > RETENTION_HOURS
      \/ OutsideTop(IF nLast.job = "editor" THEN EDITOR_KEEP ELSE MAX_PATTERNS, nLast.before[k])

\* C24 for the narrative tracker alone: what it removes was last seen 6
\* hours ago or earlier, or ten kept patterns are at least as strong
TrackerRemovesStaleOrWeak ==
  NarrativeRunDone =>
    \A k \in RemovedByLastRun :
      \/ nLast.at - nLast.before[k].last_seen >= RETENTION_HOURS
      \/ OutsideTop(MAX_PATTERNS, nLast.before[k])

\* the tracker removed a fresh pattern because ten were stronger
TrackerRemovedWeakest ==
  ~(/\ NarrativeRunDone
    /\ \E k \in RemovedByLastRun :
         /\ nLast.at - nLast.before[k].last_seen < RETENTION_HOURS
         /\ OutsideTop(MAX_PATTERNS, nLast.before[k]))

\* the editor removed the strongest pattern of a fresh set
EditorRemovedStrongest ==
  ~(/\ nLast.job = "editor"
    /\ \E k \in RemovedByLastRun :
         /\ nLast.at = nLast.before[k].last_seen
         /\ \A j \in DOMAIN nLast.before : RatLE(nLast.before[j].strength, nLast.before[k].strength)
         /\ \A i \in DOMAIN nPatterns : RatLT(nPatterns[i].strength, nLast.before[k].strength))

\* C25: the current document is read and written back without a lock. An
\* invocation that overlapped no other one writes a state made from the
\* document as the earlier invocation left it, so every item of that
\* document is in its merge unless it was selected again; after any save
\* the document is what the last writer made of its own selection and the
\* state it read, nothing else.
ThmC25_LastWriterWins ==
  /\ \A r \in Runners :
       (run[r].pc = "save" /\ ~run[r].overlapped) =>
         /\ run[r].previous = current
         /\ \A x \in Range(current) :
              x.id \in IdsOf(run[r].news_items) \/ x \in Range(run[r].merged)
  /\ lastSave.by # 0 =>
       /\ Range(current) \subseteq Range(lastSave.news_items) \cup Range(lastSave.previous)
       /\ \A x \in Range(lastSave.news_items) \cup Range(lastSave.previous) :
            x \in Range(current)
              \/ Len(current) = TOP_ITEMS
              \/ (x \in Range(lastSave.previous) /\ x.id \in IdsOf(lastSave.news_items))

\* two overlapping invocations both read the empty document; the one that
\* saved last left out an item the other one had selected and saved, though
\* the document has room for it
WitC25_OtherRunsItemLost ==
  \E r \in Runners, o \in Runners :
    /\ r # o
    /\ lastSave.by = r
    /\ run[r].overlapped /\ run[o].overlapped
    /\ run[o].pc \in {"archive", "done"}
    /\ run[o].previous = lastSave.previous
    /\ Len(current) < TOP_ITEMS
    /\ \E x \in Range(run[o].top_items) :
         x \in Range(run[o].news_items) /\ x.id \notin IdsOf(current)

\* an invocation that overlapped no other one is about to save over a
\* document that holds items
SequentialRunMerged ==
  ~(\E r \in Runners : run[r].pc = "save" /\ ~run[r].overlapped /\ current # <<>>
                       /\ run[r].news_items # <<>>)

\* C26 as stated: the current document never holds two items with the same
\* id, after any sequence of reporter runs and whatever selections the LLM
\* returns, one item_number selected twice or an item_number that is
\* missing or empty included.
CexC26_CurrentIdsUnique ==
  \A i, j \in DOMAIN current : current[i].id = current[j].id => i = j

\* the part of C26 on the items carried forward: the merge never adds a
\* previous item whose id was selected again, and when the selection names
\* no item twice the document has no id twice
MergeAddsNoKnownId ==
  lastSave.by # 0 =>
    /\ \A x \in Range(current) :
         x.id \in IdsOf(lastSave.news_items) => x \in Range(lastSave.news_items)
    /\ ( /\ \A i, j \in DOMAIN lastSave.news_items :
              lastSave.news_items[i].id = lastSave.news_items[j].id => i = j
         /\ \A i, j \in DOMAIN lastSave.previous :
              lastSave.previous[i].id = lastSave.previous[j].id => i = j )
       => CexC26_CurrentIdsUnique

\* the archive document of a day is short and newest first
ArchiveCappedAndOrdered(items) ==
  /\ Len(items) <= ARCHIVE_DAY_LIMIT
  /\ \A i, j \in DOMAIN items : i < j => ArchiveSortKey(items[i]) >= ArchiveSortKey(items[j])

\* C27 as stated: after any sequence of archive_items calls for one
\* category on one day the day's archive has no two entries with the same
\* id, archiving an archived item again changing nothing, and at most 100
\* entries, the most recent by published date of everything archived.
CexC27_ArchiveIdsUnique ==
  \A d \in DOMAIN archive :
    /\ \A i, j \in DOMAIN archive[d] : archive[d][i].id = archive[d][j].id => i = j
    /\ ArchiveCappedAndOrdered(archive[d])

\* the parts of C27 that hold: the cut and the order, and no id is added
\* that the document read by the call already held
ArchiveKeepsCapAndKnownIds ==
  /\ \A d \in DOMAIN archive : ArchiveCappedAndOrdered(archive[d])
  /\ \A r \in Runners :
       run[r].pc = "archive" =>
         LET before == get_archive(archive, Day(clock))
             after == get_archive(archive_items(archive, run[r].merged, clock), Day(clock))
         IN  /\ \A x \in Range(before) :
                  Cardinality({i \in DOMAIN after : after[i].id = x.id})
                    <= Cardinality({i \in DOMAIN before : before[i].id = x.id})
             /\ IdsOf(run[r].merged) \subseteq IdsOf(before) => after = before

\* ------------------------------------------------------------------------
\* shared/twitter_client.py: TwitterClient instances on one bucket
\* ------------------------------------------------------------------------

\* RATE_LIMIT_CONFIG
SEARCH_COOLDOWN_MINUTES == 60
CACHE_TTL_HOURS == 2
MAX_SEARCHES_PER_DAY == 3
MONTHLY_LIMIT == 1500

\* the reset assumed for a 429 without x-rate-limit-reset, in minutes
RESET_FALLBACK_MINUTES == 15

\* minutes of a day and of an hour
DAY_MINUTES == 1440
HOUR_MINUTES == 60

\* strftime("%Y-%m-%d") of an instant in minutes
TwDay(t) == t \div DAY_MINUTES

\* the instances, the calls made in one behaviour, the minute the behaviour
\* starts at (21:00 of the first day), the minutes a step of the clock
\* takes and the minutes the clock runs
TwClients == {1, 2}
MaxTwCalls == 4
TwStart == 1260
TwTickMinutes == 60
MaxTwMinutes == 180

\* the two requests of the client: fetch_list_timeline and search_tweets
TwKinds == {"list", "search"}

\* HTTP status of a response; 0 stands for an aiohttp.ClientError
TwStatuses == {200, 429, 500, 0}

\* TwitterClient.__init__, with no request in progress
NewClient ==
  [pc |-> "idle", kind |-> "none", use_cache |-> TRUE, rate_limit_remaining |-> <<>>,
   rate_limit_reset |-> <<>>, last_search_time |-> <<>>, searches_today |-> 0,
   searches_today_date |-> <<>>, count |-> 0, result |-> "none", sent |-> FALSE,
   usage_at_call |-> 0, sends |-> <<>>]

\* the calls made: instance 1 serves the search mode of the handler and
\* searches with or without the cache, instance 2 serves the list mode and
\* fetches the list timeline through the cache
TwCallChoices(c) ==
  IF c = 1 THEN {<<"list", TRUE>>, <<"search", TRUE>>, <<"search", FALSE>>}
  ELSE {<<"list", TRUE>>}

\* the usage counts a month can have reached when the behaviour starts
TwUsageStarts == {0, MONTHLY_LIMIT - 1}

TwInit ==
  /\ FilterIdle
  /\ SelectIdle
  /\ ReporterIdle
  /\ UnifiedIdle
  /\ CorrIdle
  /\ NarrIdle
  /\ twClock = TwStart
  /\ twUsage \in TwUsageStarts
  /\ twOk = twUsage
  /\ twCache = [k \in TwKinds |-> <<>>]
  /\ twClient = [c \in TwClients |-> NewClient]
  /\ twCalls = 0

\* _get_cached: a stored response not older than the TTL
cache_hit(cache, kind, now) ==
  cache[kind] # <<>> /\ ~(now - cache[kind][1] > CACHE_TTL_HOURS * HOUR_MINUTES)

\* the rate limit check of _make_request on the instance's header fields
rate_limited(me, now) ==
  /\ me.rate_limit_remaining # <<>>
  /\ me.rate_limit_remaining[1] <= 0
  /\ me.rate_limit_reset # <<>>
  /\ now < me.rate_limit_reset[1]

\* get_monthly_usage()["remaining"]
remaining_quota(count) == MONTHLY_LIMIT - count

\* search_tweets: the reset of the daily counter at the first call of a day
searches_today_of(me, now) ==
  IF me.searches_today_date # <<TwDay(now)>> THEN 0 ELSE me.searches_today

\* search_tweets: the daily limit and the cooldown
search_refused(me, now) ==
  \/ searches_today_of(me, now) >= MAX_SEARCHES_PER_DAY
  \/ /\ me.last_search_time # <<>>
     /\ now - me.last_search_time[1] < SEARCH_COOLDOWN_MINUTES

\* search_tweets after _make_request has returned: the search is counted
search_tracked(me, now) ==
  [me EXCEPT !.searches_today = @ + 1, !.last_search_time = <<now>>]

\* a call of fetch_list_timeline or search_tweets up to the HTTP request:
\* the search checks, the cache, the header rate limit and the monthly limit
TwBegin(c) ==
  /\ twClient[c].pc = "idle"
  /\ twCalls < MaxTwCalls
  /\ twCalls' = twCalls + 1
  /\ \E call \in TwCallChoices(c) :
       LET now == twClock
           kind == call[1]
           use_cache == call[2]
           me == [twClient[c] EXCEPT
                    !.kind = kind, !.use_cache = use_cache, !.sent = FALSE,
                    !.usage_at_call = twUsage,
                    !.searches_today =
                       IF kind = "search" THEN searches_today_of(twClient[c], now) ELSE @,
                    !.searches_today_date = IF kind = "search" THEN <<TwDay(now)>> ELSE @]
       IN  twClient' = [twClient EXCEPT ![c] =
             CASE kind = "search" /\ search_refused(me, now) ->
                    [me EXCEPT !.result = "empty"]
               [] use_cache /\ cache_hit(twCache, kind, now) ->
                    IF kind = "search"
                    THEN [search_tracked(me, now) EXCEPT !.result = "cached"]
                    ELSE [me EXCEPT !.result = "cached"]
               [] rate_limited(me, now) -> [me EXCEPT !.result = "RateLimitError"]
               [] remaining_quota(twUsage) <= 0 -> [me EXCEPT !.result = "RateLimitError"]
               [] OTHER -> [me EXCEPT !.pc = "send", !.result = "none"]]
  /\ UNCHANGED <<twClock, twUsage, twCache, twOk, exceptTw>>

\* session.get and the handling of the response; a 429 carries
\* x-rate-limit-remaining: 0
TwRespond(c) ==
  /\ twClient[c].pc = "send"
  /\ \E status \in TwStatuses :
       LET me == [twClient[c] EXCEPT
                    !.sent = TRUE,
                    !.sends = IF twClient[c].kind = "search" THEN Append(@, twClock) ELSE @]
       IN  /\ twClient' = [twClient EXCEPT ![c] =
                CASE status = 200 -> [me EXCEPT !.pc = "read"]
                  [] status = 429 ->
                       [me EXCEPT !.pc = "idle", !.result = "RateLimitError",
                                  !.rate_limit_remaining = <<0>>,
                                  !.rate_limit_reset = <<twClock + RESET_FALLBACK_MINUTES>>]
                  [] OTHER -> [me EXCEPT !.pc = "idle", !.result = "TwitterAPIError"]]
           /\ twOk' = IF status = 200 THEN twOk + 1 ELSE twOk
  /\ UNCHANGED <<twClock, twUsage, twCache, twCalls, exceptTw>>

\* _increment_usage: get_object of the usage document
TwReadUsage(c) ==
  /\ twClient[c].pc = "read"
  /\ twClient' = [twClient EXCEPT ![c].count = twUsage, ![c].pc = "put"]
  /\ UNCHANGED <<twClock, twUsage, twCache, twCalls, twOk, exceptTw>>

\* _increment_usage: put_object of count + 1; then the response is cached
\* and, for a search, the search is counted
TwPutUsage(c) ==
  /\ twClient[c].pc = "put"
  /\ twUsage' = twClient[c].count + 1
  /\ twCache' = IF twClient[c].use_cache
                THEN [twCache EXCEPT ![twClient[c].kind] = <<twClock>>] ELSE twCache
  /\ LET me == [twClient[c] EXCEPT !.pc = "idle", !.result = "data", !.count = 0]
     IN  twClient' = [twClient EXCEPT ![c] =
                        IF me.kind = "search" THEN search_tracked(me, twClock) ELSE me]
  /\ UNCHANGED <<twClock, twCalls, twOk, exceptTw>>

\* time passes between calls; a request takes seconds
TwTick ==
  /\ twClock + TwTickMinutes <= TwStart + MaxTwMinutes
  /\ \A c \in TwClients : twClient[c].pc = "idle"
  /\ twClock' = twClock + TwTickMinutes
  /\ UNCHANGED <<twUsage, twCache, twClient, twCalls, twOk, exceptTw>>

TwNext ==
  \/ \E c \in TwClients : TwBegin(c)
  \/ \E c \in TwClients : TwRespond(c)
  \/ \E c \in TwClients : TwReadUsage(c)
  \/ \E c \in TwClients : TwPutUsage(c)
  \/ TwTick

SpecTwitter == TwInit /\ [][TwNext]_vars

\* no response is waiting to be counted
NoIncrementPending == \A c \in TwClients : twClient[c].pc \notin {"read", "put"}

\* C28 as stated: for any interleaving of requests of TwitterClient
\* instances on one bucket the persisted monthly count equals the number of
\* HTTP-200 responses of the month and never exceeds 1500; a request
\* attempted when the remaining quota is <= 0 raises RateLimitError and is
\* not sent.
CexC28_UsageExactAndCapped ==
  /\ NoIncrementPending => twUsage = twOk
  /\ twUsage <= MONTHLY_LIMIT
  /\ \A c \in TwClients :
       (twClient[c].pc = "send" \/ twClient[c].sent) =>
         remaining_quota(twClient[c].usage_at_call) > 0

\* the parts of C28 that hold: the count never exceeds the number of 200
\* responses, cache hits and failed requests leave it alone, and a call
\* that finds no quota left is not sent
UsageNeverOvercounts ==
  /\ twUsage <= twOk
  /\ \A c \in TwClients :
       /\ (twClient[c].pc = "send" \/ twClient[c].sent) =>
            remaining_quota(twClient[c].usage_at_call) > 0
       /\ (twClient[c].pc = "idle" /\ twClient[c].result = "cached") => ~twClient[c].sent
       /\ (twClient[c].pc = "idle" /\ twClient[c].kind # "none"
             /\ remaining_quota(twClient[c].usage_at_call) <= 0)
            => twClient[c].result \in {"RateLimitError", "cached", "empty"}

\* C29 as stated: an instance sends at most 3 search requests per UTC day
\* and never one within 60 minutes of its previous search request, whether
\* or not earlier requests succeeded; a refused search returns an empty
\* list without sending a request or consuming quota.
CexC29_SearchesSpacedAndCapped ==
  \A c \in TwClients :
    LET sends == twClient[c].sends
    IN  /\ \A i, j \in DOMAIN sends :
             i < j => sends[j] - sends[i] >= SEARCH_COOLDOWN_MINUTES
        /\ \A i \in DOMAIN sends :
             Cardinality({j \in DOMAIN sends : TwDay(sends[j]) = TwDay(sends[i])})
               <= MAX_SEARCHES_PER_DAY
        /\ (twClient[c].pc = "idle" /\ twClient[c].result = "empty") => ~twClient[c].sent

\* the parts of C29 that hold: a search is sent only when fewer than 3
\* searches of the day have returned and the last one that returned did so
\* at least 60 minutes ago; a refused search sends nothing
SearchesThatReturnedAreCounted ==
  \A c \in TwClients :
    /\ (twClient[c].pc = "send" /\ twClient[c].kind = "search") =>
         /\ twClient[c].searches_today < MAX_SEARCHES_PER_DAY
         /\ twClient[c].last_search_time # <<>> =>
              twClock - twClient[c].last_search_time[1] >= SEARCH_COOLDOWN_MINUTES
    /\ (twClient[c].pc = "idle" /\ twClient[c].result = "empty") =>
         /\ ~twClient[c].sent
         /\ twClient[c].kind = "search"

\* a search was refused because three searches of the day had returned
DailyLimitRefused ==
  ~(\E c \in TwClients :
      /\ twClient[c].pc = "idle" /\ twClient[c].result = "empty"
      /\ twClient[c].searches_today = MAX_SEARCHES_PER_DAY
      /\ Len(twClient[c].sends) >= 1)

\* the daily counter was reset on the next day
DailyCounterReset ==
  ~(\E c \in TwClients :
      /\ twClient[c].searches_today_date = <<TwDay(twClock)>>
      /\ TwDay(twClock) > TwDay(TwStart)
      /\ twClient[c].sends # <<>>
      /\ TwDay(twClient[c].sends[1]) = TwDay(TwStart))

\* the position of the first mention of an entity among the mentions the
\* velocity window counts, 0 when it has none
FirstMention(tweets, entity) ==
  LET recent == SelectSeq(tweets, LAMBDA t : t.created_at >= CorrNow - 1)
      counted == Flatten([i \in DOMAIN recent |-> Mentions(recent[i])])
      at == {j \in DOMAIN counted : counted[j] = entity}
  IN  IF at = {} THEN 0 ELSE CHOOSE j \in at : \A k \in at : j <= k

\* a call of detect_velocity_spikes without baseline tweets on an engine
\* with the default configuration
NoBaselineCall ==
  cStep = "spikes" /\ cArgs.baseline_tweets = <<>> /\ cArgs.threshold = <<2, 1>>

====
